---- MODULE Spec2Model ----
(***************************************************************************)
(* Model of the metrics parsers and the resource-association helpers of    *)
(* the Kubernetes dashboard (src/app/api/kubectl/namespace-details/        *)
(* route.ts, src/lib/server-actions.ts, src/lib/types.ts).                 *)
(*                                                                         *)
(* Text is a sequence of one-character strings, so that trim, split,       *)
(* endsWith, slice and parseInt are computed on characters as the code     *)
(* computes them.                                                          *)
(*                                                                         *)
(* A JavaScript number is held as the record [nan, int, frac] standing for *)
(* NaN or for int + frac / Unit with 0 <= frac < Unit, Unit = 1024 * 1024: *)
(* every value the parsers produce is NaN or an exact multiple of 1/Unit   *)
(* (an integer, or an integer divided by 1024 once or twice).              *)
(***************************************************************************)
EXTENDS Integers, Sequences, FiniteSets, TLC

VARIABLES
    metricsFn,      \* the parsing routine last called ("none" before any call)
    metricsLines,   \* the lines kubectl printed, as token lists with their spacing
    metricsOutput,  \* the text handed to the routine (metricsStdout)
    metricsResult   \* what the routine returned

metricsVars == <<metricsFn, metricsLines, metricsOutput, metricsResult>>

VARIABLES
    assocFn,        \* the association list last computed ("none" before any call)
    pod,            \* the pod it was computed for
    resources,      \* the catalog given to findAssociatedResources
    services,       \* the catalog given to findAssociatedServices
    serviceNames,   \* the formatted services given to findAssociatedIngresses
    ingresses,      \* the catalog given to findAssociatedIngresses
    assocResult,    \* the list returned (empty when the call threw)
    assocThrown     \* TRUE when the call ended in a TypeError instead of returning

assocVars == <<assocFn, pod, resources, services, serviceNames, ingresses, assocResult,
               assocThrown>>

VARIABLES
    detailsFn,      \* the namespace-details entry point running ("none" when idle)
    detailsAt,      \* the await the request is at
    cli,            \* how each kubectl invocation of the request went, so far
    podsData,       \* the items of the pod listing
    podMetricsMap,  \* the pod metrics: name -> [cpu, memory]
    catalogs,       \* pvcs, configMaps, secrets, services, ingresses as listed
    pods,           \* the pod objects built so far
    response        \* what the caller got

detailsVars == <<detailsFn, detailsAt, cli, podsData, podMetricsMap, catalogs, pods,
                 response>>

VARIABLES
    clusterFn,        \* the cluster-info entry point running ("none" when idle)
    clusterAt,        \* the await the request is at
    nodeMetrics,      \* parseNodeMetrics' result, or the defaults
    namespaceItems,   \* the names of the namespace listing
    namespaceSteps,   \* for each namespace, how far its promise is and its result
    cluster           \* what the caller got

clusterVars == <<clusterFn, clusterAt, nodeMetrics, namespaceItems, namespaceSteps,
                 cluster>>

VARIABLES
    currentContext, \* the current-context entry of the kubeconfig file
    reader          \* a namespace-details request on that file: the await it is
                    \* at, its contextName, the context each listing ran under

contextVars == <<currentContext, reader>>

VARIABLES
    disk,           \* the files of the server: resolved path -> content
    routeCall       \* the last request served by a route that takes or makes a
                    \* file path: the request, the response, what the handler did

fileVars == <<disk, routeCall>>

VARIABLES
    chartAt,        \* "none", or "rendered" after ResourceUsageChart ran
    chartData,      \* the data prop: entries [name, value]
    slices          \* filteredData, the slices handed to the pie

chartVars == <<chartAt, chartData, slices>>

VARIABLES
    kubeConfig,        \* Home: TRUE when a kubeconfig is set
    contexts,          \* Home: the contexts the sidebar lists
    selectedCluster,   \* Home: null, or the cluster snapshot (its context)
    selectedNamespace, \* Home: null, or the namespace snapshot (its name, and
                       \* the context it was asked for)
    isLoading,         \* Home: the loading flag
    inFlight,          \* the fetches awaiting their response
    issued,            \* how many fetches were started
    selects            \* the calls of handleClusterSelect, in order, with how
                       \* each one ended

pageVars == <<kubeConfig, contexts, selectedCluster, selectedNamespace, isLoading,
              inFlight, issued, selects>>

siteVars == <<contextVars, fileVars, chartVars, pageVars>>

requestVars == <<detailsVars, clusterVars, siteVars>>

coreVars == <<metricsVars, assocVars, detailsVars, clusterVars>>

vars == <<metricsFn, metricsLines, metricsOutput, metricsResult,
          assocFn, pod, resources, services, serviceNames, ingresses, assocResult,
          assocThrown,
          detailsFn, detailsAt, cli, podsData, podMetricsMap, catalogs, pods, response,
          clusterFn, clusterAt, nodeMetrics, namespaceItems, namespaceSteps, cluster,
          currentContext, reader, disk, routeCall, chartAt, chartData, slices,
          kubeConfig, contexts, selectedCluster, selectedNamespace, isLoading,
          inFlight, issued, selects>>

----------------------------------------------------------------------------
(* Bounds of the model *)

\* payload numbers 0..MaxN are tried in every CPU and memory field
MaxN == 3
\* longest metrics text, in lines, in which short and long lines are mixed
MaxLines == 3
\* most references (volumes plus environment entries) a pod declares
MaxRefs == 2
\* most services in a service catalog
MaxServices == 2
\* most rules in an ingress catalog
MaxRules == 2
\* most pods in a pod listing
MaxPods == 2
\* most namespaces in a namespace listing
MaxNamespaces == 2
\* most kubeconfig files uploaded (identifiers uuidv4 can draw)
MaxFiles == 2
\* most fetches the page starts
MaxRequests == 4
\* most entries in the data of a chart, and the largest value of an entry
MaxEntries == 6
MaxValue == 2

----------------------------------------------------------------------------
(* JavaScript numbers *)

Unit == 1024 * 1024

NaN == [nan |-> TRUE, int |-> 0, frac |-> 0]

Num(n) == [nan |-> FALSE, int |-> n, frac |-> 0]

\* x * k for a positive integer constant k
Times(x, k) ==
    IF x.nan THEN NaN
    ELSE [nan |-> FALSE,
          int |-> x.int * k + ((x.frac * k) \div Unit),
          frac |-> (x.frac * k) % Unit]

\* x / k for k = 1024, exact on the multiples of k / Unit
Over(x, k) ==
    IF x.nan THEN NaN
    ELSE [nan |-> FALSE,
          int |-> x.int \div k,
          frac |-> (x.int % k) * (Unit \div k) + (x.frac \div k)]

\* Math.floor(x)
Floor(x) == IF x.nan THEN NaN ELSE [nan |-> FALSE, int |-> x.int, frac |-> 0]

\* x + y
Plus(x, y) ==
    IF x.nan \/ y.nan THEN NaN
    ELSE [nan |-> FALSE,
          int |-> x.int + y.int + ((x.frac + y.frac) \div Unit),
          frac |-> (x.frac + y.frac) % Unit]

\* x >= 0 (false for NaN)
NonNegative(x) == ~x.nan /\ x.int >= 0

----------------------------------------------------------------------------
(* JavaScript strings *)

Digit == <<"0", "1", "2", "3", "4", "5", "6", "7", "8", "9">>

DigitChars == {Digit[i] : i \in 1..10}

DigitVal(c) == (CHOOSE i \in 1..10 : Digit[i] = c) - 1

WhiteSpace == {" ", "\t", "\n", "\r"}

\* String.prototype.endsWith
endsWith(s, suffix) ==
    /\ Len(s) >= Len(suffix)
    /\ SubSeq(s, Len(s) - Len(suffix) + 1, Len(s)) = suffix

\* s.slice(0, -k)
sliceEnd(s, k) == IF Len(s) > k THEN SubSeq(s, 1, Len(s) - k) ELSE <<>>

RECURSIVE trimStart(_)
trimStart(s) ==
    IF s # <<>> /\ Head(s) \in WhiteSpace THEN trimStart(Tail(s)) ELSE s

RECURSIVE trimEnd(_)
trimEnd(s) ==
    IF s # <<>> /\ s[Len(s)] \in WhiteSpace
    THEN trimEnd(SubSeq(s, 1, Len(s) - 1))
    ELSE s

\* String.prototype.trim
trim(s) == trimEnd(trimStart(s))

\* s.split("\n"): cur is the piece being read; the empty text gives <<"">>
RECURSIVE splitNewline(_, _)
splitNewline(s, cur) ==
    IF s = <<>> THEN <<cur>>
    ELSE IF Head(s) = "\n" THEN <<cur>> \o splitNewline(Tail(s), <<>>)
    ELSE splitNewline(Tail(s), Append(cur, Head(s)))

\* s.split(/\s+/): a maximal run of white space is one separator
RECURSIVE splitSpaces(_, _)
splitSpaces(s, cur) ==
    IF s = <<>> THEN <<cur>>
    ELSE IF Head(s) \in WhiteSpace
         THEN <<cur>> \o splitSpaces(trimStart(s), <<>>)
         ELSE splitSpaces(Tail(s), Append(cur, Head(s)))

\* the value of a run of decimal digits
RECURSIVE digitsValue(_, _)
digitsValue(s, acc) ==
    IF s = <<>> \/ Head(s) \notin DigitChars THEN acc
    ELSE digitsValue(Tail(s), acc * 10 + DigitVal(Head(s)))

\* Number.parseInt(s, 10): leading white space, an optional sign, then the
\* longest run of digits; NaN when there is no digit there
parseInt(s) ==
    LET t == trimStart(s)
        neg == t # <<>> /\ Head(t) = "-"
        u == IF t # <<>> /\ Head(t) \in {"-", "+"} THEN Tail(t) ELSE t
    IN  IF u = <<>> \/ Head(u) \notin DigitChars THEN NaN
        ELSE Num(IF neg THEN 0 - digitsValue(u, 0) ELSE digitsValue(u, 0))

----------------------------------------------------------------------------
(* The unit-suffix decoding shared by the parsing routines *)

\* decodeCpu with the cores branch left in cores
decodeCpuCores(cpuStr) ==
    IF endsWith(cpuStr, <<"m">>) THEN parseInt(sliceEnd(cpuStr, 1))
    ELSE parseInt(cpuStr)

\* cpuStr.endsWith("m") ? parseInt(cpuStr.slice(0, -1)) : parseInt(cpuStr) * 1000
decodeCpu(cpuStr) ==
    IF endsWith(cpuStr, <<"m">>) THEN parseInt(sliceEnd(cpuStr, 1))
    ELSE Times(parseInt(cpuStr), 1000)

\* decodeMemoryBytes with the Ki branch not floored
decodeMemoryBytesUnfloored(memStr) ==
    IF endsWith(memStr, <<"M", "i">>) THEN parseInt(sliceEnd(memStr, 2))
    ELSE IF endsWith(memStr, <<"G", "i">>) THEN Times(parseInt(sliceEnd(memStr, 2)), 1024)
    ELSE IF endsWith(memStr, <<"K", "i">>) THEN Over(parseInt(sliceEnd(memStr, 2)), 1024)
    ELSE IF endsWith(memStr, <<"m">>) THEN Over(Over(parseInt(sliceEnd(memStr, 1)), 1024), 1024)
    ELSE Over(Over(parseInt(memStr), 1024), 1024)

\* the if / else-if chain with the byte branches (route.ts, types.ts parseNodeMetrics)
decodeMemoryBytes(memStr) ==
    IF endsWith(memStr, <<"M", "i">>) THEN parseInt(sliceEnd(memStr, 2))
    ELSE IF endsWith(memStr, <<"G", "i">>) THEN Times(parseInt(sliceEnd(memStr, 2)), 1024)
    ELSE IF endsWith(memStr, <<"K", "i">>) THEN Floor(Over(parseInt(sliceEnd(memStr, 2)), 1024))
    ELSE IF endsWith(memStr, <<"m">>) THEN Over(Over(parseInt(sliceEnd(memStr, 1)), 1024), 1024)
    ELSE Over(Over(parseInt(memStr), 1024), 1024)

\* the if / else-if chain without them: any other field leaves the value at 0
decodeMemorySuffixed(memStr) ==
    IF endsWith(memStr, <<"M", "i">>) THEN parseInt(sliceEnd(memStr, 2))
    ELSE IF endsWith(memStr, <<"G", "i">>) THEN Times(parseInt(sliceEnd(memStr, 2)), 1024)
    ELSE IF endsWith(memStr, <<"K", "i">>) THEN Floor(Over(parseInt(sliceEnd(memStr, 2)), 1024))
    ELSE Num(0)

\* metricsOutput.trim().split("\n"), each line as line.trim().split(/\s+/)
lineParts(text) ==
    LET lines == splitNewline(trim(text), <<>>)
    IN  [i \in 1..Len(lines) |-> splitSpaces(trim(lines[i]), <<>>)]


\* isSample with the comparison off by one
isSampleStrict(parts) == Len(parts) > 3

\* if (parts.length >= 3)
isSample(parts) == Len(parts) >= 3

\* result[podName] = { cpu, memory }: a later line with the same name replaces
\* the earlier one
setKey(result, key, value) ==
    [k \in (DOMAIN result) \cup {key} |-> IF k = key THEN value ELSE result[k]]

----------------------------------------------------------------------------
(* The six parsing routines.  Each takes the text and folds its lines.      *)

\* parsePodMetrics of the namespace-details route
RECURSIVE podMetricsRouteLoop(_, _)
podMetricsRouteLoop(parts, n) ==
    IF n = 0 THEN <<>>
    ELSE LET result == podMetricsRouteLoop(parts, n - 1)
             p == parts[n]
         IN  IF isSample(p)
             THEN setKey(result, p[1],
                         [cpu |-> decodeCpu(p[2]), memory |-> decodeMemoryBytes(p[3])])
             ELSE result

parsePodMetricsRoute(metricsOutputText) ==
    LET parts == lineParts(metricsOutputText)
    IN  podMetricsRouteLoop(parts, Len(parts))

\* parsePodMetrics of the server actions
RECURSIVE podMetricsActionsLoop(_, _)
podMetricsActionsLoop(parts, n) ==
    IF n = 0 THEN <<>>
    ELSE LET result == podMetricsActionsLoop(parts, n - 1)
             p == parts[n]
         IN  IF isSample(p)
             THEN setKey(result, p[1],
                         [cpu |-> decodeCpu(p[2]), memory |-> decodeMemorySuffixed(p[3])])
             ELSE result

parsePodMetricsActions(metricsOutputText) ==
    LET parts == lineParts(metricsOutputText)
    IN  podMetricsActionsLoop(parts, Len(parts))

\* parseNamespaceMetrics of the cluster-info route (types.ts)
RECURSIVE namespaceMetricsRouteLoop(_, _)
namespaceMetricsRouteLoop(parts, n) ==
    IF n = 0 THEN [cpuUsage |-> Num(0), memoryUsage |-> Num(0)]
    ELSE LET acc == namespaceMetricsRouteLoop(parts, n - 1)
             p == parts[n]
         IN  IF isSample(p)
             THEN [cpuUsage |-> Plus(acc.cpuUsage, decodeCpu(p[2])),
                   memoryUsage |-> Plus(acc.memoryUsage, decodeMemorySuffixed(p[3]))]
             ELSE acc

parseNamespaceMetricsRoute(metricsOutputText) ==
    LET parts == lineParts(metricsOutputText)
    IN  namespaceMetricsRouteLoop(parts, Len(parts))

\* parseNamespaceMetrics of the server actions
RECURSIVE namespaceMetricsActionsLoop(_, _)
namespaceMetricsActionsLoop(parts, n) ==
    IF n = 0 THEN [cpuUsage |-> Num(0), memoryUsage |-> Num(0)]
    ELSE LET acc == namespaceMetricsActionsLoop(parts, n - 1)
             p == parts[n]
         IN  IF isSample(p)
             THEN [cpuUsage |-> Plus(acc.cpuUsage, decodeCpu(p[2])),
                   memoryUsage |-> Plus(acc.memoryUsage, decodeMemorySuffixed(p[3]))]
             ELSE acc

parseNamespaceMetricsActions(metricsOutputText) ==
    LET parts == lineParts(metricsOutputText)
    IN  namespaceMetricsActionsLoop(parts, Len(parts))

\* parseNodeMetrics of the cluster-info route (types.ts)
RECURSIVE nodeMetricsRouteLoop(_, _)
nodeMetricsRouteLoop(parts, n) ==
    IF n = 0
    THEN [cpuUsage |-> Num(0), cpuTotal |-> Num(0),
          memoryUsage |-> Num(0), memoryTotal |-> Num(0)]
    ELSE LET acc == nodeMetricsRouteLoop(parts, n - 1)
             p == parts[n]
         IN  IF isSample(p)
             THEN [cpuUsage |-> Plus(acc.cpuUsage, decodeCpu(p[2])),
                   cpuTotal |-> Plus(acc.cpuTotal, Num(4000)),
                   memoryUsage |-> Plus(acc.memoryUsage, decodeMemoryBytes(p[3])),
                   memoryTotal |-> Plus(acc.memoryTotal, Num(16384))]
             ELSE acc

parseNodeMetricsRoute(metricsOutputText) ==
    LET parts == lineParts(metricsOutputText)
    IN  nodeMetricsRouteLoop(parts, Len(parts))

\* parseNodeMetrics of the server actions
RECURSIVE nodeMetricsActionsLoop(_, _)
nodeMetricsActionsLoop(parts, n) ==
    IF n = 0
    THEN [cpuUsage |-> Num(0), cpuTotal |-> Num(0),
          memoryUsage |-> Num(0), memoryTotal |-> Num(0)]
    ELSE LET acc == nodeMetricsActionsLoop(parts, n - 1)
             p == parts[n]
         IN  IF isSample(p)
             THEN [cpuUsage |-> Plus(acc.cpuUsage, decodeCpu(p[2])),
                   cpuTotal |-> Plus(acc.cpuTotal, Num(4000)),
                   memoryUsage |-> Plus(acc.memoryUsage, decodeMemorySuffixed(p[3])),
                   memoryTotal |-> Plus(acc.memoryTotal, Num(16384))]
             ELSE acc

parseNodeMetricsActions(metricsOutputText) ==
    LET parts == lineParts(metricsOutputText)
    IN  nodeMetricsActionsLoop(parts, Len(parts))

----------------------------------------------------------------------------
(* The metrics text the routines are given: what `kubectl top` printed.     *)

\* String(n) for n >= 0
RECURSIVE Decimal(_)
Decimal(n) ==
    IF n < 10 THEN <<Digit[n + 1]>>
    ELSE Decimal(n \div 10) \o <<Digit[(n % 10) + 1]>>

\* payload numbers: the small ones, and the sizes at which units change
Values == (0..MaxN) \cup {500, 1024, 1536, 2048, 1024 * 1024, 1536 * 1024}

NegativePayloads == {<<"-">> \o Decimal(n) : n \in {3, 5}}

JunkPayloads ==
    { <<>>,
      <<"a", "b", "c">>,
      <<"<", "u", "n", "k", "n", "o", "w", "n", ">">> }

Payloads == {Decimal(n) : n \in Values} \cup NegativePayloads \cup JunkPayloads

CpuSuffixes == {<<>>, <<"m">>}

MemorySuffixes == {<<>>, <<"m">>, <<"M", "i">>, <<"G", "i">>, <<"K", "i">>}

\* a field is a token: it is not empty
CpuFields == {p \o s : p \in Payloads, s \in CpuSuffixes} \ {<<>>}

MemoryFields == {p \o s : p \in Payloads, s \in MemorySuffixes} \ {<<>>}

\* a printed line: its tokens, and the white space before, between and after them
Line(toks, lead, sep, trail) ==
    [toks |-> toks, lead |-> lead, sep |-> sep, trail |-> trail]

PodA == <<"p", "o", "d", "-", "a">>
PodB == <<"p", "o", "d", "-", "b">>
PodC == <<"p", "o", "d", "-", "c">>

\* one line "pod-a <cpu> <memory>" for every pair of fields
FieldLines == {Line(<<PodA, c, m>>, <<>>, <<" ">>, <<>>) : c \in CpuFields, m \in MemoryFields}

\* lines of every length, with the spacing kubectl and a CRLF pipe produce
ShapeLines ==
    { Line(<<PodA, Decimal(1) \o <<"m">>, Decimal(1) \o <<"M", "i">> >>, <<>>, <<" ">>, <<>>),
      Line(<<PodB, Decimal(2), Decimal(1) \o <<"G", "i">> >>, <<" ">>, <<" ", " ", " ">>, <<" ">>),
      Line(<<PodC, Decimal(3) \o <<"m">>, Decimal(2048) \o <<"K", "i">>, <<"1", "0", "%">>, <<"x">> >>,
           <<>>, <<"\t">>, <<"\r">>),
      Line(<<PodA, Decimal(2) \o <<"m">>, Decimal(2) \o <<"M", "i">> >>, <<>>, <<" ", "\t">>, <<>>),
      Line(<<>>, <<>>, <<" ">>, <<>>),
      Line(<<>>, <<" ", " ">>, <<" ">>, <<>>),
      Line(<<<<"N", "A", "M", "E">> >>, <<>>, <<" ">>, <<>>),
      Line(<<PodB, Decimal(1) \o <<"m">> >>, <<>>, <<" ">>, <<" ">>) }

RECURSIVE SeqsUpTo(_, _)
SeqsUpTo(S, n) ==
    IF n = 0 THEN {<<>>}
    ELSE LET shorter == SeqsUpTo(S, n - 1)
         IN  shorter \cup {Append(q, x) : q \in shorter, x \in S}

MetricsInputs == {<<l>> : l \in FieldLines} \cup SeqsUpTo(ShapeLines, MaxLines)

RECURSIVE joinTokens(_, _)
joinTokens(toks, sep) ==
    IF toks = <<>> THEN <<>>
    ELSE IF Len(toks) = 1 THEN toks[1]
    ELSE toks[1] \o sep \o joinTokens(Tail(toks), sep)

\* the text of the lines, each ended by a line feed
RECURSIVE renderLines(_)
renderLines(lines) ==
    IF lines = <<>> THEN <<>>
    ELSE LET l == Head(lines)
         IN  l.lead \o joinTokens(l.toks, l.sep) \o l.trail \o <<"\n">>
             \o renderLines(Tail(lines))

----------------------------------------------------------------------------
(* Kubernetes objects as the helpers read them.                             *)
(* An optional field is <<>> when absent and <<value>> when present; a      *)
(* resource name is a string, "" when the reference or its name is absent   *)
(* (both are falsy in `x && x.name`); service names, formatted services and *)
(* hosts are texts, <<>> when absent or empty.                              *)
(* hasMetadata, hasSpec and hasHttp tell whether the object has the parent  *)
(* through which a field is read (pod.metadata && pod.metadata.labels);    *)
(* the fields below a missing parent are absent.                           *)

Absent == <<>>
Present(x) == <<x>>
IsPresent(o) == o # <<>>
ValueOf(o) == o[1]

\* Array.prototype.includes
includes(list, x) == \E i \in 1..Len(list) : list[i] = x

\* unique that keeps the last occurrence of each element
RECURSIVE uniqueKeepLast(_)
uniqueKeepLast(list) ==
    IF list = <<>> THEN <<>>
    ELSE IF includes(Tail(list), Head(list)) THEN uniqueKeepLast(Tail(list))
    ELSE <<Head(list)>> \o uniqueKeepLast(Tail(list))

\* [...new Set(list)]: the first occurrence of each element, in order
RECURSIVE unique(_)
unique(list) ==
    IF list = <<>> THEN <<>>
    ELSE LET init == SubSeq(list, 1, Len(list) - 1)
             last == list[Len(list)]
         IN  IF includes(init, last) THEN unique(init)
             ELSE Append(unique(init), last)

\* findByName that takes any catalog for a match
findByNameAny(catalog, name) == TRUE

\* resources.find((r) => r.metadata.name === name) found something
findByName(catalog, name) == \E i \in 1..Len(catalog) : catalog[i].name = name

\* resources.find((r) => r.metadata.name === name) reads `name` of undefined:
\* find visits the objects in order and stops at the first match, so it throws
\* when an object without metadata comes before any object of that name
findThrows(catalog, name) ==
    \E i \in 1..Len(catalog) :
        /\ ~catalog[i].hasMetadata
        /\ \A j \in 1..(i - 1) : catalog[j].name # name

\* the body of pod.spec.volumes.forEach: one volume against the catalog
volumeStep(result, volume, catalog) ==
    IF volume.claimName # ""
    THEN IF findByName(catalog, volume.claimName)
         THEN Append(result, volume.claimName) ELSE result
    ELSE IF volume.configMapName # ""
    THEN IF findByName(catalog, volume.configMapName)
         THEN Append(result, volume.configMapName) ELSE result
    ELSE IF volume.secretName # ""
    THEN IF findByName(catalog, volume.secretName)
         THEN Append(result, volume.secretName) ELSE result
    ELSE result

RECURSIVE volumesLoop(_, _, _)
volumesLoop(volumes, n, catalog) ==
    IF n = 0 THEN <<>>
    ELSE volumeStep(volumesLoop(volumes, n - 1, catalog), volumes[n], catalog)

\* the body of container.env.forEach: one entry against the catalog
envStep(result, env, catalog) ==
    IF env.configMapKeyRef # ""
    THEN IF findByName(catalog, env.configMapKeyRef) /\ ~includes(result, env.configMapKeyRef)
         THEN Append(result, env.configMapKeyRef) ELSE result
    ELSE IF env.secretKeyRef # ""
    THEN IF findByName(catalog, env.secretKeyRef) /\ ~includes(result, env.secretKeyRef)
         THEN Append(result, env.secretKeyRef) ELSE result
    ELSE result

RECURSIVE envLoop(_, _, _, _)
envLoop(result, envs, n, catalog) ==
    IF n = 0 THEN result
    ELSE envStep(envLoop(result, envs, n - 1, catalog), envs[n], catalog)

RECURSIVE containersLoop(_, _, _, _)
containersLoop(result, containers, n, catalog) ==
    IF n = 0 THEN result
    ELSE LET before == containersLoop(result, containers, n - 1, catalog)
             c == containers[n]
         IN  IF IsPresent(c.env)
             THEN envLoop(before, ValueOf(c.env), Len(ValueOf(c.env)), catalog)
             ELSE before

\* the name a volume makes the helper look up, "" when it looks up nothing
volumeLookup(volume) ==
    IF volume.claimName # "" THEN volume.claimName
    ELSE IF volume.configMapName # "" THEN volume.configMapName
    ELSE volume.secretName

\* the name an environment entry makes the helper look up
envLookup(env) ==
    IF env.configMapKeyRef # "" THEN env.configMapKeyRef ELSE env.secretKeyRef

\* findAssociatedResources ends in a TypeError: one of its lookups throws
findAssociatedResourcesThrows(p, catalog) ==
    /\ IsPresent(p.spec)
    /\ \/ /\ IsPresent(ValueOf(p.spec).volumes)
          /\ \E i \in 1..Len(ValueOf(ValueOf(p.spec).volumes)) :
                LET name == volumeLookup(ValueOf(ValueOf(p.spec).volumes)[i])
                IN  name # "" /\ findThrows(catalog, name)
       \/ /\ IsPresent(ValueOf(p.spec).containers)
          /\ \E c \in 1..Len(ValueOf(ValueOf(p.spec).containers)) :
                LET container == ValueOf(ValueOf(p.spec).containers)[c]
                IN  /\ IsPresent(container.env)
                    /\ \E e \in 1..Len(ValueOf(container.env)) :
                          LET name == envLookup(ValueOf(container.env)[e])
                          IN  name # "" /\ findThrows(catalog, name)

findAssociatedResources(p, catalog) ==
    LET fromVolumes ==
            IF IsPresent(p.spec) /\ IsPresent(ValueOf(p.spec).volumes)
            THEN volumesLoop(ValueOf(ValueOf(p.spec).volumes),
                             Len(ValueOf(ValueOf(p.spec).volumes)), catalog)
            ELSE <<>>
        fromEnv ==
            IF IsPresent(p.spec) /\ IsPresent(ValueOf(p.spec).containers)
            THEN containersLoop(fromVolumes, ValueOf(ValueOf(p.spec).containers),
                                Len(ValueOf(ValueOf(p.spec).containers)), catalog)
            ELSE fromVolumes
    IN  unique(fromEnv)

\* selectorMatches with `some` for `every`
selectorMatchesSome(selector, labels) ==
    \E key \in DOMAIN selector :
        key \in DOMAIN labels /\ labels[key] = selector[key]

\* Object.entries(selector).every(([key, value]) => labels[key] === value)
selectorMatches(selector, labels) ==
    \A key \in DOMAIN selector :
        key \in DOMAIN labels /\ labels[key] = selector[key]

\* joinPorts that lists the ports last to first
RECURSIVE joinPortsReversed(_)
joinPortsReversed(ports) ==
    IF ports = <<>> THEN <<>>
    ELSE IF Len(ports) = 1 THEN Decimal(ports[1])
    ELSE joinPortsReversed(Tail(ports)) \o <<",">> \o Decimal(ports[1])

\* ports.map((port) => port.port).join(",")
RECURSIVE joinPorts(_)
joinPorts(ports) ==
    IF ports = <<>> THEN <<>>
    ELSE IF Len(ports) = 1 THEN Decimal(ports[1])
    ELSE Decimal(ports[1]) \o <<",">> \o joinPorts(Tail(ports))

\* the service as the pod's list shows it: name, or name:port,port
formatService(service) ==
    IF IsPresent(service.ports) /\ Len(ValueOf(service.ports)) > 0
    THEN service.name \o <<":">> \o joinPorts(ValueOf(service.ports))
    ELSE service.name

RECURSIVE servicesLoop(_, _, _)
servicesLoop(labels, catalog, n) ==
    IF n = 0 THEN <<>>
    ELSE LET result == servicesLoop(labels, catalog, n - 1)
             service == catalog[n]
         IN  IF service.hasSpec /\ IsPresent(service.selector)
                /\ selectorMatches(ValueOf(service.selector), labels)
             THEN Append(result, formatService(service))
             ELSE result

\* findAssociatedServices ends in a TypeError: `service.metadata.name` of a
\* selected service that has no metadata
findAssociatedServicesThrows(p, catalog) ==
    /\ p.hasMetadata /\ IsPresent(p.labels)
    /\ \E n \in 1..Len(catalog) :
          /\ catalog[n].hasSpec /\ IsPresent(catalog[n].selector)
          /\ selectorMatches(ValueOf(catalog[n].selector), ValueOf(p.labels))
          /\ ~catalog[n].hasMetadata

\* findAssociatedServices that reads a pod without labels as one with no label
findAssociatedServicesAnyPod(p, catalog) ==
    servicesLoop(IF IsPresent(p.labels) THEN ValueOf(p.labels) ELSE <<>>,
                 catalog, Len(catalog))

findAssociatedServices(p, catalog) ==
    IF p.hasMetadata /\ IsPresent(p.labels)
    THEN servicesLoop(ValueOf(p.labels), catalog, Len(catalog))
    ELSE <<>>

\* beforeColon that keeps the whole formatted text
beforeColonKeepsPorts(s) == s

\* s.split(":")[0]: the text before the first colon
RECURSIVE beforeColon(_)
beforeColon(s) ==
    IF s = <<>> \/ Head(s) = ":" THEN <<>>
    ELSE <<Head(s)>> \o beforeColon(Tail(s))

\* the body of rule.http.paths.forEach: one path of a rule
pathStep(result, rule, backend, basenames) ==
    IF backend # <<>> /\ includes(basenames, backend) /\ rule.host # <<>>
    THEN Append(result, rule.host)
    ELSE result

RECURSIVE pathsLoop(_, _, _, _)
pathsLoop(result, rule, n, basenames) ==
    IF n = 0 THEN result
    ELSE pathStep(pathsLoop(result, rule, n - 1, basenames), rule,
                  ValueOf(rule.paths)[n], basenames)

\* rules.forEach; a rule is read only `if (rule.http && rule.http.paths)`
RECURSIVE rulesLoop(_, _, _, _)
rulesLoop(result, rules, n, basenames) ==
    IF n = 0 THEN result
    ELSE LET before == rulesLoop(result, rules, n - 1, basenames)
         IN  IF rules[n].hasHttp /\ IsPresent(rules[n].paths)
             THEN pathsLoop(before, rules[n], Len(ValueOf(rules[n].paths)), basenames)
             ELSE before

\* ingresses.forEach; an ingress is read only `if (ingress.spec && ingress.spec.rules)`
RECURSIVE ingressesLoop(_, _, _)
ingressesLoop(catalog, n, basenames) ==
    IF n = 0 THEN <<>>
    ELSE LET before == ingressesLoop(catalog, n - 1, basenames)
         IN  IF catalog[n].hasSpec /\ IsPresent(catalog[n].rules)
             THEN rulesLoop(before, ValueOf(catalog[n].rules),
                            Len(ValueOf(catalog[n].rules)), basenames)
             ELSE before

findAssociatedIngresses(names, catalog) ==
    LET serviceBasenames == [i \in 1..Len(names) |-> beforeColon(names[i])]
    IN  unique(ingressesLoop(catalog, Len(catalog), serviceBasenames))

----------------------------------------------------------------------------
(* State machine of the metrics parsers: each action is one call            *)

InitMetrics ==
    /\ metricsFn = "none"
    /\ metricsLines = <<>>
    /\ metricsOutput = <<>>
    /\ metricsResult = <<>>

\* a routine is called on a text of its own; nothing of an earlier call is kept
Given(lines) ==
    /\ metricsFn = "none"
    /\ metricsLines' = lines
    /\ UNCHANGED <<assocVars, requestVars>>
    /\ metricsOutput' = renderLines(lines)

CallParsePodMetricsRoute ==
    \E lines \in MetricsInputs :
        /\ Given(lines)
        /\ metricsFn' = "parsePodMetricsRoute"
        /\ metricsResult' = parsePodMetricsRoute(renderLines(lines))

CallParsePodMetricsActions ==
    \E lines \in MetricsInputs :
        /\ Given(lines)
        /\ metricsFn' = "parsePodMetricsActions"
        /\ metricsResult' = parsePodMetricsActions(renderLines(lines))

CallParseNamespaceMetricsRoute ==
    \E lines \in MetricsInputs :
        /\ Given(lines)
        /\ metricsFn' = "parseNamespaceMetricsRoute"
        /\ metricsResult' = parseNamespaceMetricsRoute(renderLines(lines))

CallParseNamespaceMetricsActions ==
    \E lines \in MetricsInputs :
        /\ Given(lines)
        /\ metricsFn' = "parseNamespaceMetricsActions"
        /\ metricsResult' = parseNamespaceMetricsActions(renderLines(lines))

CallParseNodeMetricsRoute ==
    \E lines \in MetricsInputs :
        /\ Given(lines)
        /\ metricsFn' = "parseNodeMetricsRoute"
        /\ metricsResult' = parseNodeMetricsRoute(renderLines(lines))

CallParseNodeMetricsActions ==
    \E lines \in MetricsInputs :
        /\ Given(lines)
        /\ metricsFn' = "parseNodeMetricsActions"
        /\ metricsResult' = parseNodeMetricsActions(renderLines(lines))

\* the caller has used the result; it is not kept
DiscardMetrics ==
    /\ metricsFn # "none"
    /\ metricsFn' = "none"
    /\ metricsLines' = <<>>
    /\ metricsOutput' = <<>>
    /\ metricsResult' = <<>>
    /\ UNCHANGED <<assocVars, requestVars>>

NextMetrics ==
    \/ CallParsePodMetricsRoute
    \/ CallParsePodMetricsActions
    \/ CallParseNamespaceMetricsRoute
    \/ CallParseNamespaceMetricsActions
    \/ CallParseNodeMetricsRoute
    \/ CallParseNodeMetricsActions
    \/ DiscardMetrics

----------------------------------------------------------------------------
(* The pods and catalogs the helpers are given: what `kubectl get` listed.  *)

ResourceNames == {"data-1", "app-config", "data-2"}

NameOrder == <<"data-1", "app-config", "data-2">>

Volume(claimName, configMapName, secretName) ==
    [claimName |-> claimName, configMapName |-> configMapName, secretName |-> secretName]

\* a volume of each kind for each name, and one that references nothing (emptyDir)
VolumeOptions ==
    {Volume(n, "", "") : n \in ResourceNames}
        \cup {Volume("", n, "") : n \in ResourceNames}
        \cup {Volume("", "", n) : n \in ResourceNames}
        \cup {Volume("", "", "")}

Env(configMapKeyRef, secretKeyRef) ==
    [configMapKeyRef |-> configMapKeyRef, secretKeyRef |-> secretKeyRef]

\* an entry of each kind for each name, and one with a literal value
EnvOptions ==
    {Env(n, "") : n \in ResourceNames}
        \cup {Env("", n) : n \in ResourceNames}
        \cup {Env("", "")}

\* the entries as the env of one container, or split over two containers
ContainerLists(envs) ==
    {<<[env |-> Present(envs)]>>}
        \cup {<<[env |-> Present(SubSeq(envs, 1, k))],
                [env |-> Present(SubSeq(envs, k + 1, Len(envs)))]>> : k \in 1..(Len(envs) - 1)}
        \cup (IF envs = <<>> THEN {<<[env |-> Absent]>>} ELSE {})

PodSpecs ==
    {[volumes |-> Present(vs), containers |-> Present(cs)] :
        <<vs, cs>> \in UNION {
            {vs1} \X ContainerLists(es) :
                <<vs1, es>> \in {q \in SeqsUpTo(VolumeOptions, MaxRefs) \X SeqsUpTo(EnvOptions, MaxRefs) :
                                    Len(q[1]) + Len(q[2]) <= MaxRefs}}}

\* pods that name an object again after naming another one: MaxRefs + 1
\* volumes over two objects, and environment entries that name them too
RepeatSpecs ==
    {[volumes |-> Present(vs), containers |-> Present(cs)] :
        <<vs, cs>> \in UNION {
            {vs1} \X ContainerLists(es) :
                <<vs1, es>> \in
                    [1..(MaxRefs + 1) -> {Volume("data-1", "", ""), Volume("", "app-config", "")}]
                        \X SeqsUpTo({Env("app-config", ""), Env("", "data-1")}, 2)}}

\* pods as findAssociatedResources reads them: the spec, or no spec
ResourcePods ==
    {[hasMetadata |-> TRUE, labels |-> Absent, spec |-> Present(sp)] :
        sp \in PodSpecs \cup RepeatSpecs}
        \cup {[hasMetadata |-> TRUE, labels |-> Absent, spec |-> Absent],
              [hasMetadata |-> TRUE, labels |-> Absent,
               spec |-> Present([volumes |-> Absent, containers |-> Absent])]}

CatalogOf(names) == [i \in 1..Len(names) |-> [hasMetadata |-> TRUE, name |-> names[i]]]

\* a listed object that carries no metadata
NoMetadata == [hasMetadata |-> FALSE, name |-> ""]

\* every subset of the names as a catalog, and catalogs that list an object twice
Catalogs ==
    {CatalogOf(SelectSeq(NameOrder, LAMBDA n : n \in S)) : S \in SUBSET ResourceNames}
        \cup {CatalogOf(<<"data-1", "data-1">>),
              CatalogOf(<<"data-2", "app-config", "data-2">>)}
        \cup {<<NoMetadata>>,
              CatalogOf(<<"data-1">>) \o <<NoMetadata>>,
              <<NoMetadata>> \o CatalogOf(<<"data-1">>)}

LabelMaps ==
    UNION {[K -> {"web", "api", "frontend", "backend"}] : K \in SUBSET {"app", "tier"}}

\* the label sets a pod carries
PodLabels ==
    {l \in LabelMaps :
        /\ ("app" \in DOMAIN l => l["app"] \in {"web", "api"})
        /\ ("tier" \in DOMAIN l => l["tier"] \in {"frontend", "backend"})}

\* the selectors a service carries: empty, one pair, two pairs
Selectors ==
    { <<>>,
      "app" :> "web",
      "app" :> "api",
      "tier" :> "frontend",
      ("app" :> "web") @@ ("tier" :> "backend") }

\* pods as findAssociatedServices reads them: labelled, without labels,
\* without metadata
ServicePods ==
    {[hasMetadata |-> TRUE, labels |-> Present(l), spec |-> Absent] : l \in PodLabels}
        \cup {[hasMetadata |-> TRUE, labels |-> Absent, spec |-> Absent],
              [hasMetadata |-> FALSE, labels |-> Absent, spec |-> Absent]}

Svc1 == <<"s", "v", "c", "1">>
Svc2 == <<"s", "v", "c", "2">>
Svc3 == <<"s", "v", "c", "3">>

Service(name, selector, ports) ==
    [hasMetadata |-> TRUE, hasSpec |-> TRUE, name |-> name,
     selector |-> selector, ports |-> ports]

\* a listed service that carries no spec
ServiceNoSpec(name) ==
    [hasMetadata |-> TRUE, hasSpec |-> FALSE, name |-> name,
     selector |-> Absent, ports |-> Absent]

\* a listed service that carries no metadata
ServiceNoMetadata(selector, ports) ==
    [hasMetadata |-> FALSE, hasSpec |-> TRUE, name |-> <<>>,
     selector |-> selector, ports |-> ports]

ServiceOptions ==
    {Service(Svc1, sel, Present(ports)) :
        sel \in {Present(l) : l \in Selectors} \cup {Absent}, ports \in {<<80, 443>>, <<443, 80>>}}
        \cup {Service(Svc2, sel, Present(<<>>)) : sel \in {Present(l) : l \in Selectors} \cup {Absent}}
        \cup {Service(Svc3, sel, Absent) : sel \in {Present(l) : l \in Selectors} \cup {Absent}}
        \cup {ServiceNoMetadata(Present("app" :> "web"), Absent),
              ServiceNoMetadata(Absent, Absent),
              ServiceNoSpec(Svc2)}

\* the services of a namespace have distinct names; a catalog may list the
\* same service more than once
ServiceCatalogs ==
    {c \in SeqsUpTo(ServiceOptions, MaxServices) :
        \A i, j \in 1..Len(c) : c[i].name = c[j].name => c[i] = c[j]}

\* the lists findAssociatedServices can hand on
ServiceNameLists ==
    SeqsUpTo({formatService(Service(Svc1, Absent, Present(<<80, 443>>))),
              formatService(Service(Svc2, Absent, Present(<<>>))),
              formatService(Service(Svc3, Absent, Absent))}, 2)

HostA == <<"a", ".", "i", "o">>
HostB == <<"b", ".", "i", "o">>

Rule(host, paths) == [host |-> host, hasHttp |-> TRUE, paths |-> Present(paths)]

\* a rule with an http object that has no paths, and a rule without http
RuleNoPaths(host) == [host |-> host, hasHttp |-> TRUE, paths |-> Absent]
RuleNoHttp(host) == [host |-> host, hasHttp |-> FALSE, paths |-> Absent]

\* rules with and without host; paths name a listed service, another one, or none
RuleOptions ==
    {Rule(h, ps) : h \in {HostA, HostB, <<>>},
                   ps \in {<<>>, <<Svc1>>, <<Svc2>>, <<<<"s", "v", "c", "9">>, Svc1>>,
                           <<Svc3, Svc3>>, <<<<>>, Svc2>>}}
        \cup {RuleNoPaths(HostA), RuleNoHttp(HostB)}

Ingress(rules) == [hasSpec |-> TRUE, rules |-> Present(rules)]

\* an ingress with a spec that has no rules, and an ingress without spec
IngressNoRules == [hasSpec |-> TRUE, rules |-> Absent]
IngressNoSpec == [hasSpec |-> FALSE, rules |-> Absent]

\* the rules as one ingress, or as one ingress per rule; ingresses without
\* rules or without spec beside them
IngressCatalogs ==
    UNION {{<<Ingress(rs)>>, [i \in 1..Len(rs) |-> Ingress(<<rs[i]>>)]} :
              rs \in SeqsUpTo(RuleOptions, MaxRules)}
        \cup UNION {{<<incomplete>>, <<incomplete, Ingress(<<r>>)>>} :
                       incomplete \in {IngressNoRules, IngressNoSpec}, r \in RuleOptions}

----------------------------------------------------------------------------
(* State machine of the association helpers: each action is one of the      *)
(* calls of the pod loop (route.ts 234-238, server-actions.ts 298-302)      *)

InitAssoc ==
    /\ assocFn = "none"
    /\ pod = <<>>
    /\ resources = <<>>
    /\ services = <<>>
    /\ serviceNames = <<>>
    /\ ingresses = <<>>
    /\ assocResult = <<>>
    /\ assocThrown = FALSE

\* findAssociatedResources(pod, <catalog>) at the call that fills `field`
FindResources(field) ==
    /\ assocFn = "none"
    /\ \E p \in ResourcePods, catalog \in Catalogs :
        /\ assocFn' = field
        /\ pod' = p
        /\ resources' = catalog
        /\ assocThrown' = findAssociatedResourcesThrows(p, catalog)
        /\ assocResult' = IF findAssociatedResourcesThrows(p, catalog) THEN <<>>
                          ELSE findAssociatedResources(p, catalog)
    /\ UNCHANGED <<services, serviceNames, ingresses>>
    /\ UNCHANGED <<metricsVars, requestVars>>

\* const podPvcs = findAssociatedResources(pod, pvcs)
FindPodPvcs == FindResources("pvcs")

\* const podConfigMaps = findAssociatedResources(pod, configMaps)
FindPodConfigMaps == FindResources("configMaps")

\* const podSecrets = findAssociatedResources(pod, secrets)
FindPodSecrets == FindResources("secrets")

\* const podServices = findAssociatedServices(pod, services)
FindPodServices ==
    /\ assocFn = "none"
    /\ \E p \in ServicePods, catalog \in ServiceCatalogs :
        /\ assocFn' = "services"
        /\ pod' = p
        /\ services' = catalog
        /\ assocThrown' = findAssociatedServicesThrows(p, catalog)
        /\ assocResult' = IF findAssociatedServicesThrows(p, catalog) THEN <<>>
                          ELSE findAssociatedServices(p, catalog)
    /\ UNCHANGED <<resources, serviceNames, ingresses>>
    /\ UNCHANGED <<metricsVars, requestVars>>

\* const podIngresses = findAssociatedIngresses(podServices, ingresses)
FindPodIngresses ==
    /\ assocFn = "none"
    /\ \E names \in ServiceNameLists, catalog \in IngressCatalogs :
        /\ assocFn' = "ingresses"
        /\ serviceNames' = names
        /\ ingresses' = catalog
        /\ assocThrown' = FALSE
        /\ assocResult' = findAssociatedIngresses(names, catalog)
    /\ UNCHANGED <<pod, resources, services>>
    /\ UNCHANGED <<metricsVars, requestVars>>

\* the list has gone into the response; nothing is kept
DiscardAssoc ==
    /\ assocFn # "none"
    /\ assocFn' = "none"
    /\ pod' = <<>>
    /\ resources' = <<>>
    /\ services' = <<>>
    /\ serviceNames' = <<>>
    /\ ingresses' = <<>>
    /\ assocResult' = <<>>
    /\ assocThrown' = FALSE
    /\ UNCHANGED <<metricsVars, requestVars>>

NextAssoc ==
    \/ FindPodPvcs
    \/ FindPodConfigMaps
    \/ FindPodSecrets
    \/ FindPodServices
    \/ FindPodIngresses
    \/ DiscardAssoc

----------------------------------------------------------------------------
(* The namespace-details request: POST of route.ts and getNamespaceDetails  *)
(* of server-actions.ts.  An action is the code between two awaits.         *)

CatalogKinds == {"pvc", "configmap", "secret", "service", "ingress"}

\* the kubectl invocations of one request
Invocations == {"use-context", "pods", "top"} \cup CatalogKinds

\* how an invocation ends: exit 0 with nothing on stderr, exit 0 with text
\* on stderr, exit non-zero (execPromise rejects)
CliOutcomes == {"ok", "stderr", "exit"}

\* the command line ends in `2>/dev/null`: what kubectl writes on stderr is
\* dropped by the shell
redirected(fn, invocation) ==
    \/ invocation \in CatalogKinds
    \/ invocation = "top" /\ fn = "POST"

\* invocationFails that takes only a non-zero exit for a failure
invocationFailsOnExitOnly(fn, invocation, outcome) == outcome = "exit"

\* the code after the await takes the invocation for failed: it rejected, or
\* `if (stderr)` holds
invocationFails(fn, invocation, outcome) ==
    \/ outcome = "exit"
    \/ outcome = "stderr" /\ ~redirected(fn, invocation)

\* the pods of the namespace, as `kubectl get pods -o json` lists them
PodObject(name, labels, spec) ==
    [hasMetadata |-> TRUE, name |-> name, labels |-> labels, spec |-> spec]

\* a pod name that is also a property every JavaScript object inherits
Constructor == <<"c", "o", "n", "s", "t", "r", "u", "c", "t", "o", "r">>

\* the properties of Object.prototype that a pod name (lower case letters,
\* digits, '-' and '.') can spell
ObjectPrototypeKeys == {Constructor}

NamespacePods ==
    << PodObject(PodA, Present(("app" :> "web") @@ ("tier" :> "frontend")),
                 Present([volumes |-> Present(<<Volume("data-1", "", ""),
                                                Volume("", "app-config", "")>>),
                          containers |-> Present(<<[env |-> Present(<<Env("", "data-2")>>)]>>)])),
       PodObject(PodB, Present("app" :> "api"),
                 Present([volumes |-> Absent,
                          containers |-> Present(<<[env |-> Absent]>>)])),
       PodObject(PodC, Absent, Absent),
       PodObject(Constructor, Absent, Absent) >>

\* the listings tried: runs of at most MaxPods of these pods
PodListings ==
    {SubSeq(NamespacePods, q[1], q[2]) :
        q \in {r \in (1..Len(NamespacePods)) \X (0..Len(NamespacePods)) :
                  r[2] >= r[1] - 1 /\ r[2] - r[1] + 1 <= MaxPods}}

\* the objects of the namespace, as `kubectl get <kind> -o json` lists them
NamespaceCatalog(kind) ==
    CASE kind = "pvc" -> CatalogOf(<<"data-1", "data-2">>)
      [] kind = "configmap" -> CatalogOf(<<"app-config">>)
      [] kind = "secret" -> CatalogOf(<<"data-2">>)
      [] kind = "service" ->
            <<Service(Svc1, Present("app" :> "web"), Present(<<80, 443>>)),
              Service(Svc2, Present("app" :> "api"), Absent)>>
      [] kind = "ingress" ->
            <<Ingress(<<Rule(HostA, <<Svc1>>), Rule(HostB, <<Svc2>>)>>)>>

\* what `kubectl top pods --no-headers` prints
PodMetricsTexts ==
    { <<>>,
      << Line(<<PodA, Decimal(250) \o <<"m">>, Decimal(64) \o <<"M", "i">> >>,
              <<>>, <<" ", " ">>, <<>>),
         Line(<<PodB, Decimal(1), Decimal(1536) \o <<"K", "i">> >>, <<>>, <<" ">>, <<>>) >>,
      << Line(<<PodA, Decimal(3), Decimal(1572864)>>, <<>>, <<" ">>, <<>>),
         Line(<<PodC, Decimal(2) \o <<"m">>, Decimal(5) \o <<"G", "i">> >>,
              <<>>, <<" ">>, <<>>) >> }

\* the runs of the metrics command: each text with exit 0, one text with a
\* warning on stderr, and a non-zero exit
PodMetricsRuns ==
    ({"ok"} \X PodMetricsTexts)
        \cup {<<"stderr", lines>> : lines \in {t \in PodMetricsTexts : Len(t) = 2 /\ t[1].sep = <<" ", " ">>}}
        \cup {<<"exit", <<>> >>}

NoResponse == [status |-> "none", namespace |-> <<>>]
ErrorResponse == [status |-> "error", namespace |-> <<>>]

InitDetails ==
    /\ detailsFn = "none"
    /\ detailsAt = "idle"
    /\ cli = [i \in Invocations |-> "none"]
    /\ podsData = <<>>
    /\ podMetricsMap = <<>>
    /\ catalogs = [k \in CatalogKinds |-> <<>>]
    /\ pods = <<>>
    /\ response = NoResponse

\* the request arrives with its parameters; `kubectl config use-context` starts
DetailsRequest ==
    /\ detailsFn = "none"
    /\ \E fn \in {"POST", "getNamespaceDetails"} : detailsFn' = fn
    /\ detailsAt' = "use-context"
    /\ cli' = [cli EXCEPT !["use-context"] = "running"]
    /\ UNCHANGED <<podsData, podMetricsMap, catalogs, pods, response>>
    /\ UNCHANGED <<metricsVars, assocVars, clusterVars, siteVars>>

\* the context switch ends: an error response, or the pod listing starts
ContextSwitched ==
    /\ detailsAt = "use-context"
    /\ \E outcome \in CliOutcomes :
        IF invocationFails(detailsFn, "use-context", outcome)
        THEN /\ cli' = [cli EXCEPT !["use-context"] = outcome]
             /\ response' = ErrorResponse
             /\ detailsAt' = "done"
        ELSE /\ cli' = [cli EXCEPT !["use-context"] = outcome, !["pods"] = "running"]
             /\ response' = response
             /\ detailsAt' = "pods"
    /\ UNCHANGED <<detailsFn, podsData, podMetricsMap, catalogs, pods>>
    /\ UNCHANGED <<metricsVars, assocVars, clusterVars, siteVars>>

\* the pod listing ends: an error response, or podsData and the metrics
\* command starts
PodsListed ==
    /\ detailsAt = "pods"
    /\ \E outcome \in CliOutcomes, items \in PodListings :
        IF invocationFails(detailsFn, "pods", outcome)
        THEN /\ cli' = [cli EXCEPT !["pods"] = outcome]
             /\ response' = ErrorResponse
             /\ detailsAt' = "done"
             /\ podsData' = podsData
        ELSE /\ cli' = [cli EXCEPT !["pods"] = outcome, !["top"] = "running"]
             /\ response' = response
             /\ detailsAt' = "top"
             /\ podsData' = items
    /\ UNCHANGED <<detailsFn, podMetricsMap, catalogs, pods>>
    /\ UNCHANGED <<metricsVars, assocVars, clusterVars, siteVars>>

\* parsePodMetrics of the entry point running
parsePodMetricsOf(fn, text) ==
    IF fn = "POST" THEN parsePodMetricsRoute(text) ELSE parsePodMetricsActions(text)

\* the metrics command ends: the map stays {} when it rejected (the catch
\* only warns), stderr is not read; then Promise.all starts the five catalog
\* listings at once
PodMetricsRead ==
    /\ detailsAt = "top"
    /\ \E run \in PodMetricsRuns :
        /\ podMetricsMap' = IF run[1] = "exit" THEN <<>>
                            ELSE parsePodMetricsOf(detailsFn, renderLines(run[2]))
        /\ cli' = [i \in Invocations |->
                      IF i = "top" THEN run[1]
                      ELSE IF i \in CatalogKinds THEN "running"
                      ELSE cli[i]]
    /\ detailsAt' = "catalogs"
    /\ UNCHANGED <<detailsFn, podsData, catalogs, pods, response>>
    /\ UNCHANGED <<metricsVars, assocVars, clusterVars, siteVars>>

\* getResourcesForNamespace after its await: [] when the listing failed,
\* else data.items
getResourcesForNamespace(fn, kind, outcome) ==
    IF invocationFails(fn, kind, outcome) THEN <<>> ELSE NamespaceCatalog(kind)

\* one of the five listings ends, in any order
CatalogListed ==
    /\ detailsAt = "catalogs"
    /\ \E kind \in CatalogKinds, outcome \in CliOutcomes :
        /\ cli[kind] = "running"
        /\ cli' = [cli EXCEPT ![kind] = outcome]
        /\ catalogs' = [catalogs EXCEPT
                           ![kind] = getResourcesForNamespace(detailsFn, kind, outcome)]
    /\ UNCHANGED <<detailsFn, detailsAt, podsData, podMetricsMap, pods, response>>
    /\ UNCHANGED <<metricsVars, assocVars, clusterVars, siteVars>>

\* allSettled that is content with one listing
someSettled(c) == \E kind \in CatalogKinds : c[kind] \in CliOutcomes

\* Promise.all has resolved: each of the five promises has
allSettled(c) == \A kind \in CatalogKinds : c[kind] \in CliOutcomes

\* podMetricsMap[podName] || { cpu: 0, memory: 0 }: the own property, else the
\* inherited one (a function, truthy, whose .cpu and .memory are undefined and
\* add as NaN), else the default
metricsOfPod(map, name) ==
    IF name \in DOMAIN map THEN map[name]
    ELSE IF name \in ObjectPrototypeKeys THEN [cpu |-> NaN, memory |-> NaN]
    ELSE [cpu |-> Num(0), memory |-> Num(0)]

\* catalogsAfterResolution that empties what was read
catalogsEmptied(c) == [kind \in DOMAIN c |-> <<>>]

\* the catalogs after the five calls for one pod: find, forEach, every, map
\* and includes only read them
catalogsAfterResolution(c) == c

\* the callback of podsData.items.map for the next pod
ResolvePod ==
    /\ detailsAt = "catalogs"
    /\ allSettled(cli)
    /\ Len(pods) < Len(podsData)
    /\ LET p == podsData[Len(pods) + 1]
           metrics == metricsOfPod(podMetricsMap, p.name)
           podPvcs == findAssociatedResources(p, catalogs["pvc"])
           podConfigMaps == findAssociatedResources(p, catalogs["configmap"])
           podSecrets == findAssociatedResources(p, catalogs["secret"])
           podServices == findAssociatedServices(p, catalogs["service"])
           podIngresses == findAssociatedIngresses(podServices, catalogs["ingress"])
       IN  pods' = Append(pods, [name |-> p.name,
                                 cpuUsage |-> metrics.cpu,
                                 memoryUsage |-> metrics.memory,
                                 pvcs |-> podPvcs,
                                 configMaps |-> podConfigMaps,
                                 secrets |-> podSecrets,
                                 services |-> podServices,
                                 ingresses |-> podIngresses])
    /\ catalogs' = catalogsAfterResolution(catalogs)
    /\ UNCHANGED <<detailsFn, detailsAt, cli, podsData, podMetricsMap, response>>
    /\ UNCHANGED <<metricsVars, assocVars, clusterVars, siteVars>>

\* reduceCpuUsage that leaves the last pod out
RECURSIVE reduceCpuUsageButLast(_)
reduceCpuUsageButLast(list) ==
    IF Len(list) <= 1 THEN Num(0)
    ELSE Plus(reduceCpuUsageButLast(SubSeq(list, 1, Len(list) - 1)),
              list[Len(list) - 1].cpuUsage)

\* list.reduce((sum, x) => sum + x.cpuUsage, 0)
RECURSIVE reduceCpuUsage(_)
reduceCpuUsage(list) ==
    IF list = <<>> THEN Num(0)
    ELSE Plus(reduceCpuUsage(SubSeq(list, 1, Len(list) - 1)), list[Len(list)].cpuUsage)

\* list.reduce((sum, x) => sum + x.memoryUsage, 0)
RECURSIVE reduceMemoryUsage(_)
reduceMemoryUsage(list) ==
    IF list = <<>> THEN Num(0)
    ELSE Plus(reduceMemoryUsage(SubSeq(list, 1, Len(list) - 1)),
              list[Len(list)].memoryUsage)

\* every pod is built: the totals and the response
DetailsRespond ==
    /\ detailsAt = "catalogs"
    /\ allSettled(cli)
    /\ Len(pods) = Len(podsData)
    /\ response' = [status |-> "ok",
                    namespace |-> [podCount |-> Len(pods),
                                   cpuUsage |-> reduceCpuUsage(pods),
                                   memoryUsage |-> reduceMemoryUsage(pods),
                                   pods |-> pods]]
    /\ detailsAt' = "done"
    /\ UNCHANGED <<detailsFn, cli, podsData, podMetricsMap, catalogs, pods>>
    /\ UNCHANGED <<metricsVars, assocVars, clusterVars, siteVars>>

\* the response is sent; nothing of the request is kept
DetailsDiscard ==
    /\ detailsAt = "done"
    /\ detailsFn' = "none"
    /\ detailsAt' = "idle"
    /\ cli' = [i \in Invocations |-> "none"]
    /\ podsData' = <<>>
    /\ podMetricsMap' = <<>>
    /\ catalogs' = [k \in CatalogKinds |-> <<>>]
    /\ pods' = <<>>
    /\ response' = NoResponse
    /\ UNCHANGED <<metricsVars, assocVars, clusterVars, siteVars>>

NextDetails ==
    \/ DetailsRequest
    \/ ContextSwitched
    \/ PodsListed
    \/ PodMetricsRead
    \/ CatalogListed
    \/ ResolvePod
    \/ DetailsRespond
    \/ DetailsDiscard

----------------------------------------------------------------------------
(* The cluster-info request: POST of types.ts and getClusterInfo of         *)
(* server-actions.ts.  An action is the code between two awaits.            *)

NsA == <<"n", "s", "-", "a">>
NsB == <<"n", "s", "-", "b">>
NsC == <<"n", "s", "-", "c">>

\* the listings tried: runs of at most MaxNamespaces of these namespaces
NamespaceListings ==
    {SubSeq(<<NsA, NsB, NsC>>, q[1], q[2]) :
        q \in {r \in (1..3) \X (0..3) :
                  r[2] >= r[1] - 1 /\ r[2] - r[1] + 1 <= MaxNamespaces}}

\* what `kubectl top nodes --no-headers` prints
NodeMetricsTexts ==
    { <<>>,
      << Line(<< <<"n", "o", "d", "e", "-", "1">>,
                 Decimal(500) \o <<"m">>, Decimal(2048) \o <<"M", "i">> >>,
              <<>>, <<" ", " ">>, <<>>) >> }

\* the runs of a metrics command: each text with exit 0, and a non-zero exit
NodeMetricsRuns == ({"ok"} \X NodeMetricsTexts) \cup {<<"exit", <<>> >>}
NamespaceMetricsRuns == ({"ok"} \X PodMetricsTexts) \cup {<<"exit", <<>> >>}

\* what `kubectl get pods --no-headers 2>/dev/null | wc -l` prints
PodCountTexts == {<<"0", "\n">>, <<" ", "2", "\n">>}

\* Number.parseInt(podStdout.trim(), 10) || 0
podCountOf(text) ==
    LET n == parseInt(trim(text))
    IN  IF n.nan \/ n = Num(0) THEN Num(0) ELSE n

\* parseNodeMetrics of the entry point running
parseNodeMetricsOf(fn, text) ==
    IF fn = "POST" THEN parseNodeMetricsRoute(text) ELSE parseNodeMetricsActions(text)

\* parseNamespaceMetrics of the entry point running
parseNamespaceMetricsOf(fn, text) ==
    IF fn = "POST" THEN parseNamespaceMetricsRoute(text)
    ELSE parseNamespaceMetricsActions(text)

\* the catch of the node metrics try: "Default values"
DefaultNodeMetrics ==
    [cpuUsage |-> Num(0), cpuTotal |-> Num(8000),
     memoryUsage |-> Num(0), memoryTotal |-> Num(32000)]

NoCluster == [status |-> "none", data |-> <<>>]
ErrorCluster == [status |-> "error", data |-> <<>>]

\* the request arrives; `kubectl config use-context` starts
ClusterRequest ==
    /\ clusterFn = "none"
    /\ \E fn \in {"POST", "getClusterInfo"} : clusterFn' = fn
    /\ clusterAt' = "use-context"
    /\ UNCHANGED <<nodeMetrics, namespaceItems, namespaceSteps, cluster>>
    /\ UNCHANGED <<metricsVars, assocVars, detailsVars, siteVars>>

\* the context switch ends: an error response, or the namespace listing starts
ClusterContextSwitched ==
    /\ clusterAt = "use-context"
    /\ \E outcome \in CliOutcomes :
        IF outcome \in {"stderr", "exit"}
        THEN cluster' = ErrorCluster /\ clusterAt' = "done"
        ELSE cluster' = cluster /\ clusterAt' = "namespaces"
    /\ UNCHANGED <<clusterFn, nodeMetrics, namespaceItems, namespaceSteps>>
    /\ UNCHANGED <<metricsVars, assocVars, detailsVars, siteVars>>

\* the namespace listing ends: an error response, or namespaces.items and the
\* node metrics command starts
NamespacesListed ==
    /\ clusterAt = "namespaces"
    /\ \E outcome \in CliOutcomes, items \in NamespaceListings :
        IF outcome \in {"stderr", "exit"}
        THEN /\ cluster' = ErrorCluster
             /\ clusterAt' = "done"
             /\ namespaceItems' = namespaceItems
        ELSE /\ cluster' = cluster
             /\ clusterAt' = "nodes"
             /\ namespaceItems' = items
    /\ UNCHANGED <<clusterFn, nodeMetrics, namespaceSteps>>
    /\ UNCHANGED <<metricsVars, assocVars, detailsVars, siteVars>>

\* the node metrics command ends: parseNodeMetrics, or the defaults when it
\* rejected; then namespaces.items.map starts one promise per namespace, each
\* up to its pod count command
NodeMetricsRead ==
    /\ clusterAt = "nodes"
    /\ \E run \in NodeMetricsRuns :
        nodeMetrics' = IF run[1] = "exit" THEN DefaultNodeMetrics
                       ELSE parseNodeMetricsOf(clusterFn, renderLines(run[2]))
    /\ namespaceSteps' = [i \in 1..Len(namespaceItems) |->
                             [at |-> "count", podCount |-> Num(0),
                              cpuUsage |-> Num(0), memoryUsage |-> Num(0)]]
    /\ clusterAt' = "promises"
    /\ UNCHANGED <<clusterFn, namespaceItems, cluster>>
    /\ UNCHANGED <<metricsVars, assocVars, detailsVars, siteVars>>

\* the pod count command of one namespace ends; its metrics command starts
PodsCounted ==
    /\ clusterAt = "promises"
    /\ \E i \in 1..Len(namespaceItems), text \in PodCountTexts :
        /\ namespaceSteps[i].at = "count"
        /\ namespaceSteps' = [namespaceSteps EXCEPT
                                 ![i].at = "top", ![i].podCount = podCountOf(text)]
    /\ UNCHANGED <<clusterFn, clusterAt, nodeMetrics, namespaceItems, cluster>>
    /\ UNCHANGED <<metricsVars, assocVars, detailsVars, siteVars>>

\* the metrics command of one namespace ends: parseNamespaceMetrics, or 0 and
\* 0 when it rejected; the promise of the namespace resolves
NamespaceMetricsRead ==
    /\ clusterAt = "promises"
    /\ \E i \in 1..Len(namespaceItems), run \in NamespaceMetricsRuns :
        /\ namespaceSteps[i].at = "top"
        /\ LET podMetrics ==
                   IF run[1] = "exit" THEN [cpuUsage |-> Num(0), memoryUsage |-> Num(0)]
                   ELSE parseNamespaceMetricsOf(clusterFn, renderLines(run[2]))
           IN  namespaceSteps' = [namespaceSteps EXCEPT
                                     ![i].at = "resolved",
                                     ![i].cpuUsage = podMetrics.cpuUsage,
                                     ![i].memoryUsage = podMetrics.memoryUsage]
    /\ UNCHANGED <<clusterFn, clusterAt, nodeMetrics, namespaceItems, cluster>>
    /\ UNCHANGED <<metricsVars, assocVars, detailsVars, siteVars>>

\* clusterUsage that adds the namespaces to what the nodes report
clusterUsagePlusNodes(ofNodes, ofNamespaces) == Plus(ofNodes, ofNamespaces)

\* cluster.cpuUsage is set from nodeMetrics and then assigned the reduce over
\* cluster.namespaces: the second assignment is what the response carries
clusterUsage(ofNodes, ofNamespaces) == ofNamespaces

\* Promise.all(namespacePromises) has resolved: the totals and the response
ClusterRespond ==
    /\ clusterAt = "promises"
    /\ \A i \in 1..Len(namespaceItems) : namespaceSteps[i].at = "resolved"
    /\ LET namespaces ==
               [i \in 1..Len(namespaceItems) |->
                   [name |-> namespaceItems[i],
                    podCount |-> namespaceSteps[i].podCount,
                    cpuUsage |-> namespaceSteps[i].cpuUsage,
                    memoryUsage |-> namespaceSteps[i].memoryUsage]]
       IN  cluster' =
               [status |-> "ok",
                data |-> [cpuUsage |-> clusterUsage(nodeMetrics.cpuUsage,
                                                    reduceCpuUsage(namespaces)),
                          cpuTotal |-> nodeMetrics.cpuTotal,
                          memoryUsage |-> clusterUsage(nodeMetrics.memoryUsage,
                                                       reduceMemoryUsage(namespaces)),
                          memoryTotal |-> nodeMetrics.memoryTotal,
                          namespaces |-> namespaces]]
    /\ clusterAt' = "done"
    /\ UNCHANGED <<clusterFn, nodeMetrics, namespaceItems, namespaceSteps>>
    /\ UNCHANGED <<metricsVars, assocVars, detailsVars, siteVars>>

\* the response is sent; nothing of the request is kept
ClusterDiscard ==
    /\ clusterAt = "done"
    /\ clusterFn' = "none"
    /\ clusterAt' = "idle"
    /\ nodeMetrics' = <<>>
    /\ namespaceItems' = <<>>
    /\ namespaceSteps' = <<>>
    /\ cluster' = NoCluster
    /\ UNCHANGED <<metricsVars, assocVars, detailsVars, siteVars>>

NextCluster ==
    \/ ClusterRequest
    \/ ClusterContextSwitched
    \/ NamespacesListed
    \/ NodeMetricsRead
    \/ PodsCounted
    \/ NamespaceMetricsRead
    \/ ClusterRespond
    \/ ClusterDiscard

----------------------------------------------------------------------------
(* One kubeconfig file shared by the requests: `kubectl config use-context` *)
(* rewrites its current-context, and every other command reads it          *)

ContextNames == {"dev", "prod"}

IdleReader == [at |-> "idle", contextName |-> "", seen |-> <<>>]

\* the file as uploaded names one of its contexts as current
InitContext ==
    /\ currentContext = "dev"
    /\ reader = IdleReader

\* POST of namespace-details up to its first await: use-context is started
ReaderRequest ==
    /\ reader.at = "idle"
    /\ \E contextName \in ContextNames :
           reader' = [at |-> "use-context", contextName |-> contextName, seen |-> <<>>]
    /\ UNCHANGED currentContext
    /\ UNCHANGED <<coreVars, fileVars, chartVars, pageVars>>

\* kubectl config use-context ${contextName} --kubeconfig=${filePath} ends
ReaderSwitched ==
    /\ reader.at = "use-context"
    /\ currentContext' = reader.contextName
    /\ reader' = [reader EXCEPT !.at = "pods"]
    /\ UNCHANGED <<coreVars, fileVars, chartVars, pageVars>>

\* a command without --context runs under the file's current-context
ranUnder(seen, invocation, context) == setKey(seen, invocation, context)

\* kubectl get pods -n ... --kubeconfig=${filePath} ends
ReaderPodsListed ==
    /\ reader.at = "pods"
    /\ reader' = [reader EXCEPT !.at = "top",
                                !.seen = ranUnder(@, "pods", currentContext)]
    /\ UNCHANGED currentContext
    /\ UNCHANGED <<coreVars, fileVars, chartVars, pageVars>>

\* kubectl top pods -n ... --kubeconfig=${filePath} ends; Promise.all starts
\* the five listings
ReaderMetricsRead ==
    /\ reader.at = "top"
    /\ reader' = [reader EXCEPT !.at = "catalogs",
                                !.seen = ranUnder(@, "top", currentContext)]
    /\ UNCHANGED currentContext
    /\ UNCHANGED <<coreVars, fileVars, chartVars, pageVars>>

\* one kubectl get <kind> -n ... --kubeconfig=${filePath} ends
ReaderCatalogListed ==
    /\ reader.at = "catalogs"
    /\ \E kind \in CatalogKinds \ DOMAIN reader.seen :
           reader' = [reader EXCEPT !.seen = ranUnder(@, kind, currentContext)]
    /\ UNCHANGED currentContext
    /\ UNCHANGED <<coreVars, fileVars, chartVars, pageVars>>

\* the five listings have ended: the response is built and sent
ReaderRespond ==
    /\ reader.at = "catalogs"
    /\ CatalogKinds \subseteq DOMAIN reader.seen
    /\ reader' = [reader EXCEPT !.at = "done"]
    /\ UNCHANGED currentContext
    /\ UNCHANGED <<coreVars, fileVars, chartVars, pageVars>>

\* nothing of the request is kept
ReaderDiscard ==
    /\ reader.at = "done"
    /\ reader' = IdleReader
    /\ UNCHANGED currentContext
    /\ UNCHANGED <<coreVars, fileVars, chartVars, pageVars>>

\* the use-context of another request on the same file ends (switch-context,
\* cluster-info or another namespace-details)
SwitchContextRoute ==
    /\ \E contextName \in ContextNames : currentContext' = contextName
    /\ UNCHANGED reader
    /\ UNCHANGED <<coreVars, fileVars, chartVars, pageVars>>

NextContext ==
    \/ ReaderRequest
    \/ ReaderSwitched
    \/ ReaderPodsListed
    \/ ReaderMetricsRead
    \/ ReaderCatalogListed
    \/ ReaderRespond
    \/ ReaderDiscard
    \/ SwitchContextRoute

----------------------------------------------------------------------------
(* Paths, and the routes that take or make one: upload, delete and the      *)
(* kubectl routes                                                           *)

\* s.split("/")
RECURSIVE splitSlash(_, _)
splitSlash(s, cur) ==
    IF s = <<>> THEN <<cur>>
    ELSE IF Head(s) = "/" THEN <<cur>> \o splitSlash(Tail(s), <<>>)
    ELSE splitSlash(Tail(s), Append(cur, Head(s)))

\* String.prototype.includes
includesText(s, needle) ==
    \E i \in 1..(Len(s) - Len(needle) + 1) : SubSeq(s, i, i + Len(needle) - 1) = needle

\* process.cwd(), as segments
Cwd == <<<<"a", "p", "p">>>>

\* TEMP_DIR = join(process.cwd(), "tmp")
TEMP_DIR == Cwd \o <<<<"t", "m", "p">>>>

\* the segments of a path with "", "." and ".." resolved
RECURSIVE normalize(_, _)
normalize(segments, acc) ==
    IF segments = <<>> THEN acc
    ELSE LET seg == Head(segments)
         IN  IF seg = <<>> \/ seg = <<".">> THEN normalize(Tail(segments), acc)
             ELSE IF seg = <<".", ".">>
                  THEN normalize(Tail(segments),
                                 IF acc = <<>> THEN acc ELSE SubSeq(acc, 1, Len(acc) - 1))
                  ELSE normalize(Tail(segments), Append(acc, seg))

\* the file a path names to the operating system: relative paths start at cwd
resolve(filePath) ==
    IF filePath # <<>> /\ Head(filePath) = "/"
    THEN normalize(splitSlash(filePath, <<>>), <<>>)
    ELSE normalize(Cwd \o splitSlash(filePath, <<>>), <<>>)

\* the file lies inside the temp directory
InsideTempDir(filePath) ==
    LET r == resolve(filePath)
    IN  Len(r) > Len(TEMP_DIR) /\ SubSeq(r, 1, Len(TEMP_DIR)) = TEMP_DIR

\* join(TEMP_DIR, `kubeconfig-${uniqueId}`), as text
RECURSIVE joinSlash(_)
joinSlash(segments) ==
    IF segments = <<>> THEN <<>> ELSE <<"/">> \o Head(segments) \o joinSlash(Tail(segments))

kubeconfigPath(uniqueId) == joinSlash(TEMP_DIR \o <<<<"k", "u", "b", "e", "c", "o", "n", "f", "i", "g", "-">> \o uniqueId>>)

\* the identifiers uuidv4 can draw
Uuids == {Decimal(i) : i \in 1..MaxFiles}

\* !(!filePath.includes("tmp/kubeconfig-"))
pathAccepted(filePath) == includesText(filePath, <<"t", "m", "p", "/", "k", "u", "b", "e", "c", "o", "n", "f", "i", "g", "-">>)

\* the paths a caller sends
FilePaths ==
    { <<>>,
      <<"/", "e", "t", "c", "/", "p", "a", "s", "s", "w", "d">>,
      <<"/", "s", "r", "v", "/", "t", "m", "p", "/", "k", "u", "b", "e", "c", "o", "n", "f", "i", "g", "-", "o", "l", "d">>,
      <<"/", "a", "p", "p", "/", "t", "m", "p", "/", "n", "o", "t", "e", "s", ".", "t", "x", "t">>,
      <<"t", "m", "p", "/", "k", "u", "b", "e", "c", "o", "n", "f", "i", "g", "-", "1">> }
    \cup {kubeconfigPath(u) : u \in Uuids}

\* the files of the host before any upload
HostFiles ==
    (resolve(<<"/", "e", "t", "c", "/", "p", "a", "s", "s", "w", "d">>) :> "root:x:0:0") @@
    (resolve(<<"/", "s", "r", "v", "/", "t", "m", "p", "/", "k", "u", "b", "e", "c", "o", "n", "f", "i", "g", "-", "o", "l", "d">>) :> "clusters: []")

MAX_FILE_SIZE == 1024 * 1024

\* uploaded contents: the text, its size in bytes, and whether the JSON body
\* carried it as a string
Content(text, size) == [isString |-> TRUE, text |-> text, size |-> size]
NotAString == [isString |-> FALSE, text |-> "", size |-> 0]

\* a request body that request.json() cannot parse
Unparsable == [isString |-> FALSE, text |-> "{", size |-> 1]

Contents ==
    { Content("apiVersion: v1\nkind: Config", 28),
      Content("- a", 3),
      Content("hello", 5),
      Content("null", 4),
      Content("a: b: c", 7),
      Content("", 0),
      Content("kind: Config # padded", MAX_FILE_SIZE),
      Content("kind: Config # padded more", MAX_FILE_SIZE + 1) }

\* load of js-yaml on these texts: the type of the value, or "throws"
load(text) ==
    CASE text \in {"apiVersion: v1\nkind: Config", "kind: Config # padded",
                   "kind: Config # padded more"} -> "object"
      [] text = "- a" -> "array"
      [] text = "hello" -> "string"
      [] text = "null" -> "null"
      [] text = "" -> "undefined"
      [] text = "a: b: c" -> "throws"

\* parsedConfig && typeof parsedConfig === "object", or anything that parsed
isObjectOrScalar(parsed) == parsed # "throws"

\* parsedConfig && typeof parsedConfig === "object" (an array is an object,
\* null is falsy)
isObject(parsed) == parsed \in {"object", "array"}

FileNames ==
    { <<"k", ".", "y", "a", "m", "l">>, <<"k", ".", "y", "m", "l">>, <<"k", ".", "j", "s", "o", "n">>, <<"k", ".", "t", "x", "t">>, <<"y", "a", "m", "l">> }

\* fileName.endsWith(".yaml") || fileName.endsWith(".yml") || fileName.endsWith(".json")
allowedName(fileName) ==
    \/ endsWith(fileName, <<".", "y", "a", "m", "l">>)
    \/ endsWith(fileName, <<".", "y", "m", "l">>)
    \/ endsWith(fileName, <<".", "j", "s", "o", "n">>)

UploadRequest(contentType, hasFile, fileName, content) ==
    [contentType |-> contentType, hasFile |-> hasFile, fileName |-> fileName,
     content |-> content]

\* the requests to the upload route: a JSON body, a form with or without a
\* file, or another content type
UploadRequests ==
    {UploadRequest("json", FALSE, n, c) :
        n \in {<<>>}, c \in Contents \cup {NotAString}}
    \cup {UploadRequest("form", TRUE, n, c) : n \in FileNames, c \in Contents}
    \cup {UploadRequest("json", FALSE, <<>>, Unparsable),
          UploadRequest("form", FALSE, <<>>, NotAString),
          UploadRequest("other", FALSE, <<>>, NotAString)}

NoCall ==
    [route |-> "none", filePath |-> <<>>, upload |-> <<>>, status |-> 0,
     before |-> <<>>, ran |-> FALSE]

\* the record of a served request
Served(route, filePath, upload, status, ran) ==
    [route |-> route, filePath |-> filePath, upload |-> upload, status |-> status,
     before |-> disk, ran |-> ran]

InitFiles ==
    /\ disk = HostFiles
    /\ routeCall = NoCall

\* the status the upload route answers, 200 when it goes on to write
uploadStatus(r) ==
    IF r.contentType = "json"
    THEN IF r.content = Unparsable THEN 500
         ELSE IF ~r.content.isString THEN 400
         ELSE IF r.content.text = "" THEN 400
         ELSE IF isObject(load(r.content.text)) THEN 200 ELSE 400
    ELSE IF r.contentType = "form"
    THEN IF ~r.hasFile THEN 400
         ELSE IF r.content.size > MAX_FILE_SIZE THEN 400
         ELSE IF ~allowedName(r.fileName) THEN 400
         ELSE IF isObject(load(r.content.text)) THEN 200 ELSE 400
    ELSE 400

\* POST of the upload route, with handleFileUpload, handleTextContent and
\* processKubeConfig
UploadRoute ==
    /\ \E r \in UploadRequests :
        IF uploadStatus(r) = 200
        THEN \E uniqueId \in Uuids :
                /\ resolve(kubeconfigPath(uniqueId)) \notin DOMAIN disk
                /\ disk' = (resolve(kubeconfigPath(uniqueId)) :> r.content.text) @@ disk
                /\ routeCall' = Served("upload", kubeconfigPath(uniqueId), <<r>>, 200, FALSE)
        ELSE /\ disk' = disk
             /\ routeCall' = Served("upload", <<>>, <<r>>, uploadStatus(r), FALSE)
    /\ UNCHANGED <<coreVars, contextVars, chartVars, pageVars>>

\* POST of the delete route
DeleteRoute ==
    /\ \E filePath \in FilePaths :
        IF filePath = <<>> \/ ~pathAccepted(filePath)
        THEN /\ disk' = disk
             /\ routeCall' = Served("delete", filePath, <<>>, 400, FALSE)
        ELSE /\ disk' = [q \in DOMAIN disk \ {resolve(filePath)} |-> disk[q]]
             /\ routeCall' = Served("delete", filePath, <<>>, 200, FALSE)
    /\ UNCHANGED <<coreVars, contextVars, chartVars, pageVars>>

KubectlRoutes == {"contexts", "switch-context", "cluster-info", "namespace-details"}

\* POST of a kubectl route, as far as the file is concerned: the path check,
\* then kubectl runs with --kubeconfig=${filePath} and fails without the file
KubectlRoute ==
    /\ \E route \in KubectlRoutes, filePath \in FilePaths :
        IF filePath = <<>> \/ ~pathAccepted(filePath)
        THEN routeCall' = Served(route, filePath, <<>>, 400, FALSE)
        ELSE routeCall' = Served(route, filePath, <<>>,
                                 IF resolve(filePath) \in DOMAIN disk THEN 200 ELSE 500,
                                 TRUE)
    /\ disk' = disk
    /\ UNCHANGED <<coreVars, contextVars, chartVars, pageVars>>

NextFiles ==
    \/ UploadRoute
    \/ DeleteRoute
    \/ KubectlRoute

----------------------------------------------------------------------------
(* ResourceUsageChart                                                       *)

\* the data a dashboard hands over: one entry per namespace, named by its
\* place in the list
ChartInputs ==
    UNION {[1..n -> 0..MaxValue] : n \in 0..MaxEntries}

EntryNames == <<"ns-1", "ns-2", "ns-3", "ns-4", "ns-5", "ns-6", "ns-7", "ns-8">>

Entries(values) ==
    [i \in 1..Len(values) |-> [name |-> EntryNames[i], value |-> values[i]]]

\* the place of an entry among the already sorted ones: after every entry
\* that is not smaller (the sort is stable)
RECURSIVE insertSorted(_, _)
insertSorted(sorted, entry) ==
    IF sorted = <<>> THEN <<entry>>
    ELSE IF Head(sorted).value >= entry.value
         THEN <<Head(sorted)>> \o insertSorted(Tail(sorted), entry)
         ELSE <<entry>> \o sorted

\* [...data].sort((a, b) => b.value - a.value)
RECURSIVE sortDescending(_)
sortDescending(data) ==
    IF data = <<>> THEN <<>>
    ELSE insertSorted(sortDescending(SubSeq(data, 1, Len(data) - 1)), data[Len(data)])

\* list.slice(from): the entries after the first `from`
sliceFrom(list, from) == SubSeq(list, from + 1, Len(list))

\* list.slice(0, to)
sliceTo(list, to) == SubSeq(list, 1, IF Len(list) < to THEN Len(list) ELSE to)

\* list.reduce((acc, item) => acc + item.value, 0)
RECURSIVE reduceValue(_)
reduceValue(list) ==
    IF list = <<>> THEN 0
    ELSE reduceValue(SubSeq(list, 1, Len(list) - 1)) + list[Len(list)].value

\* sortedData, with "Others" pushed when the data has more than five entries
sortedWithOthers(data) ==
    LET sortedData == sliceTo(sortDescending(data), 5)
    IN  IF Len(data) > 5
        THEN Append(sortedData, [name |-> "Others", value |-> reduceValue(sliceFrom(data, 5))])
        ELSE sortedData

\* sortedData.filter((item) => item.value > 0)
filteredData(data) == SelectSeq(sortedWithOthers(data), LAMBDA item : item.value > 0)

InitChart ==
    /\ chartAt = "none"
    /\ chartData = <<>>
    /\ slices = <<>>

\* ResourceUsageChart({ data, type })
RenderChart ==
    /\ chartAt = "none"
    /\ \E values \in ChartInputs :
        /\ chartData' = Entries(values)
        /\ slices' = filteredData(Entries(values))
    /\ chartAt' = "rendered"
    /\ UNCHANGED <<coreVars, contextVars, fileVars, pageVars>>

\* the component is rendered anew from other props
DiscardChart ==
    /\ chartAt = "rendered"
    /\ chartAt' = "none"
    /\ chartData' = <<>>
    /\ slices' = <<>>
    /\ UNCHANGED <<coreVars, contextVars, fileVars, pageVars>>

NextChart ==
    \/ RenderChart
    \/ DiscardChart

----------------------------------------------------------------------------
(* The Home page: its state, its handlers up to their await, and the rest   *)
(* of each handler when the response arrives                                *)

NamespaceNames == {"default", "kube-system"}

Outcomes == {"ok", "failed"}

Fetch(id, kind, context, name) ==
    [id |-> id, kind |-> kind, context |-> context, name |-> name]

InitPage ==
    /\ kubeConfig = FALSE
    /\ contexts = {}
    /\ selectedCluster = Absent
    /\ selectedNamespace = Absent
    /\ isLoading = FALSE
    /\ inFlight = {}
    /\ issued = 0
    /\ selects = <<>>

\* handleFileUpload up to its await; the upload form shows while kubeConfig
\* is null and its buttons are disabled while loading
HandleFileUpload ==
    /\ ~kubeConfig
    /\ ~isLoading
    /\ issued < MaxRequests
    /\ isLoading' = TRUE
    /\ kubeConfig' = TRUE
    /\ issued' = issued + 1
    /\ inFlight' = inFlight \cup {Fetch(issued + 1, "contexts", "", "")}
    /\ UNCHANGED <<contexts, selectedCluster, selectedNamespace, selects>>
    /\ UNCHANGED <<coreVars, contextVars, fileVars, chartVars>>

\* handleFileUpload after getKubeContexts
ContextsArrived ==
    /\ \E f \in inFlight, outcome \in Outcomes :
        /\ f.kind = "contexts"
        /\ inFlight' = inFlight \ {f}
        /\ IF outcome = "ok"
           THEN /\ contexts' = ContextNames
                /\ selectedCluster' = Absent
                /\ selectedNamespace' = Absent
                /\ UNCHANGED kubeConfig
           ELSE /\ kubeConfig' = FALSE
                /\ UNCHANGED <<contexts, selectedCluster, selectedNamespace>>
    /\ isLoading' = FALSE
    /\ UNCHANGED <<issued, selects>>
    /\ UNCHANGED <<coreVars, contextVars, fileVars, chartVars>>

\* handleClusterSelect up to its await; the sidebar buttons are never disabled
HandleClusterSelect ==
    /\ kubeConfig
    /\ issued < MaxRequests
    /\ \E context \in contexts :
        /\ inFlight' = inFlight \cup {Fetch(issued + 1, "select", context, "")}
        /\ selects' = Append(selects, [id |-> issued + 1, context |-> context,
                                       status |-> "pending"])
    /\ isLoading' = TRUE
    /\ selectedCluster' = Absent
    /\ selectedNamespace' = Absent
    /\ issued' = issued + 1
    /\ UNCHANGED <<kubeConfig, contexts>>
    /\ UNCHANGED <<coreVars, contextVars, fileVars, chartVars>>

\* the selects with the one of this fetch marked as ended
settled(list, id, outcome) ==
    [i \in 1..Len(list) |->
        IF list[i].id = id THEN [list[i] EXCEPT !.status = outcome] ELSE list[i]]

\* handleClusterSelect, or the cluster branch of handleRefreshData, after
\* getClusterInfo
ClusterArrived ==
    /\ \E f \in inFlight, outcome \in Outcomes :
        /\ f.kind \in {"select", "refresh"}
        /\ inFlight' = inFlight \ {f}
        /\ selectedCluster' = IF outcome = "ok" THEN Present(f.context)
                               ELSE selectedCluster
        /\ selects' = settled(selects, f.id, outcome)
    /\ isLoading' = FALSE
    /\ UNCHANGED <<kubeConfig, contexts, selectedNamespace, issued>>
    /\ UNCHANGED <<coreVars, contextVars, fileVars, chartVars>>

\* handleNamespaceSelect up to its await; the namespace list shows on the
\* dashboard of the selected cluster while nothing is loading
HandleNamespaceSelect ==
    /\ kubeConfig
    /\ IsPresent(selectedCluster)
    /\ ~IsPresent(selectedNamespace)
    /\ ~isLoading
    /\ issued < MaxRequests
    /\ \E name \in NamespaceNames :
        inFlight' = inFlight \cup
                       {Fetch(issued + 1, "namespace", ValueOf(selectedCluster), name)}
    /\ isLoading' = TRUE
    /\ issued' = issued + 1
    /\ UNCHANGED <<kubeConfig, contexts, selectedCluster, selectedNamespace, selects>>
    /\ UNCHANGED <<coreVars, contextVars, fileVars, chartVars>>

\* handleNamespaceSelect, or the namespace branch of handleRefreshData, after
\* getNamespaceDetails
NamespaceArrived ==
    /\ \E f \in inFlight, outcome \in Outcomes :
        /\ f.kind = "namespace"
        /\ inFlight' = inFlight \ {f}
        /\ selectedNamespace' =
               IF outcome = "ok" THEN Present([name |-> f.name, context |-> f.context])
               ELSE selectedNamespace
    /\ isLoading' = FALSE
    /\ UNCHANGED <<kubeConfig, contexts, selectedCluster, issued, selects>>
    /\ UNCHANGED <<coreVars, contextVars, fileVars, chartVars>>

\* handleRefreshData up to its await; every refresh button is disabled while
\* loading
HandleRefreshData ==
    /\ kubeConfig
    /\ IsPresent(selectedCluster)
    /\ ~isLoading
    /\ issued < MaxRequests
    /\ inFlight' = inFlight \cup
           {IF IsPresent(selectedNamespace)
            THEN Fetch(issued + 1, "namespace", ValueOf(selectedCluster),
                       ValueOf(selectedNamespace).name)
            ELSE Fetch(issued + 1, "refresh", ValueOf(selectedCluster), "")}
    /\ isLoading' = TRUE
    /\ issued' = issued + 1
    /\ UNCHANGED <<kubeConfig, contexts, selectedCluster, selectedNamespace, selects>>
    /\ UNCHANGED <<coreVars, contextVars, fileVars, chartVars>>

\* onBack of the namespace view
Back ==
    /\ kubeConfig
    /\ IsPresent(selectedCluster)
    /\ IsPresent(selectedNamespace)
    /\ selectedNamespace' = Absent
    /\ UNCHANGED <<kubeConfig, contexts, selectedCluster, isLoading, inFlight, issued,
                   selects>>
    /\ UNCHANGED <<coreVars, contextVars, fileVars, chartVars>>

NextPage ==
    \/ HandleFileUpload
    \/ ContextsArrived
    \/ HandleClusterSelect
    \/ ClusterArrived
    \/ HandleNamespaceSelect
    \/ NamespaceArrived
    \/ HandleRefreshData
    \/ Back

----------------------------------------------------------------------------
(* Specifications *)

InitCluster ==
    /\ clusterFn = "none"
    /\ clusterAt = "idle"
    /\ nodeMetrics = <<>>
    /\ namespaceItems = <<>>
    /\ namespaceSteps = <<>>
    /\ cluster = NoCluster

InitSite == InitContext /\ InitFiles /\ InitChart /\ InitPage

Init == InitMetrics /\ InitAssoc /\ InitDetails /\ InitCluster /\ InitSite

\* the metrics parsers alone
SpecMetrics == Init /\ [][NextMetrics]_vars

\* the association helpers alone
SpecAssoc == Init /\ [][NextAssoc]_vars

\* one namespace-details request after the other
SpecDetails == Init /\ [][NextDetails]_vars

\* one cluster-info request after the other
SpecCluster == Init /\ [][NextCluster]_vars

\* a namespace-details request and the context switches of other requests
SpecContext == Init /\ [][NextContext]_vars

\* the routes that write, delete or use a kubeconfig file
SpecFiles == Init /\ [][NextFiles]_vars

\* one rendering of the chart after the other
SpecChart == Init /\ [][NextChart]_vars

\* the Home page: clicks and the arrival of responses, in any order
SpecPage == Init /\ [][NextPage]_vars

----------------------------------------------------------------------------
(* What a state of the metrics parsers shows                                *)

Called == metricsFn # "none"

PodRoutines == {"parsePodMetricsRoute", "parsePodMetricsActions"}

NodeRoutines == {"parseNodeMetricsRoute", "parseNodeMetricsActions"}

\* the text was one line "<name> <cpu> <memory> ..."
OneSample == Len(metricsLines) = 1 /\ Len(metricsLines[1].toks) >= 3

subjectName == metricsLines[1].toks[1]
cpuField == metricsLines[1].toks[2]
memoryField == metricsLines[1].toks[3]

\* the quantity decoded from that line: the pod's entry, or the total
decodedCpu ==
    IF metricsFn \in PodRoutines THEN metricsResult[subjectName].cpu
    ELSE metricsResult.cpuUsage

decodedMemory ==
    IF metricsFn \in PodRoutines THEN metricsResult[subjectName].memory
    ELSE metricsResult.memoryUsage

Mi == <<"M", "i">>
Gi == <<"G", "i">>
Ki == <<"K", "i">>

\* n bytes in mebibytes: n / (1024 * 1024)
BytesAsMebibytes(n) == [nan |-> FALSE, int |-> n \div Unit, frac |-> n % Unit]

\* k kibibytes in mebibytes, not floored: k / 1024
KibibytesAsMebibytes(k) ==
    [nan |-> FALSE, int |-> k \div 1024, frac |-> (k % 1024) * 1024]

----------------------------------------------------------------------------
(* C1: in each of the six parsing routines, a CPU field "<n>m" decodes to  *)
(* n millicores and "<n>" to 1000 * n; a memory field "<n>Mi" decodes to n *)
(* mebibytes, "<n>Gi" to 1024 * n and "<n>Ki", n a multiple of 1024, to    *)
(* n / 1024.                                                               *)
C1_UnitDecoding ==
    (Called /\ OneSample) =>
        \A n \in Values :
            /\ cpuField = Decimal(n) \o <<"m">> => decodedCpu = Num(n)
            /\ cpuField = Decimal(n) => decodedCpu = Num(1000 * n)
            /\ memoryField = Decimal(n) \o Mi => decodedMemory = Num(n)
            /\ memoryField = Decimal(n) \o Gi => decodedMemory = Num(1024 * n)
            /\ (memoryField = Decimal(n) \o Ki /\ n % 1024 = 0)
                   => decodedMemory = Num(n \div 1024)

\* "pod-a 2 2048Ki" through parseNamespaceMetrics: 2000 millicores, 2 mebibytes
C1_Witness ==
    /\ metricsFn = "parseNamespaceMetricsActions"
    /\ OneSample
    /\ cpuField = Decimal(2)
    /\ memoryField = Decimal(2048) \o Ki
    /\ metricsResult = [cpuUsage |-> Num(2000), memoryUsage |-> Num(2)]

(* C6: every decoded CPU and memory quantity is a number >= 0, whatever    *)
(* the text: a non-numeric or negative payload decodes to 0.               *)
C6_QuantitiesNonNegative ==
    Called =>
        IF metricsFn \in PodRoutines
        THEN \A name \in DOMAIN metricsResult :
                 /\ NonNegative(metricsResult[name].cpu)
                 /\ NonNegative(metricsResult[name].memory)
        ELSE /\ NonNegative(metricsResult.cpuUsage)
             /\ NonNegative(metricsResult.memoryUsage)

(* C7: in each of the six parsing routines, a memory field without Mi, Gi  *)
(* or Ki suffix (a bare number, or a number with a trailing m) is a byte   *)
(* count and decodes to value / (1024 * 1024) mebibytes.                   *)
C7_BareMemoryIsBytes ==
    (Called /\ OneSample) =>
        \A n \in Values :
            (memoryField = Decimal(n) \/ memoryField = Decimal(n) \o <<"m">>)
                => decodedMemory = BytesAsMebibytes(n)

(* C8 as stated: parsePodMetrics decodes "<k>Ki" to k / 1024 mebibytes     *)
(* without flooring, while the node and namespace routines add             *)
(* floor(k / 1024).                                                        *)
C8_PodKiNotFloored ==
    (Called /\ OneSample) =>
        \A k \in Values :
            memoryField = Decimal(k) \o Ki =>
                decodedMemory = IF metricsFn \in PodRoutines
                                THEN KibibytesAsMebibytes(k)
                                ELSE Floor(KibibytesAsMebibytes(k))

(* C8 as amended: each of the six routines, parsePodMetrics included,      *)
(* decodes "<k>Ki" to floor(k / 1024) mebibytes (1536Ki gives 1).          *)
C8_KiFlooredEverywhere ==
    (Called /\ OneSample) =>
        \A k \in Values :
            memoryField = Decimal(k) \o Ki =>
                decodedMemory = Floor(KibibytesAsMebibytes(k))

\* "pod-a <cpu> 1536Ki" through the route's parsePodMetrics: 1 mebibyte
C8_Witness ==
    /\ metricsFn = "parsePodMetricsRoute"
    /\ OneSample
    /\ memoryField = Decimal(1536) \o Ki
    /\ metricsResult[subjectName].memory = Num(1)

\* the lines of the text that have at least three tokens
SampleLines == SelectSeq(metricsLines, LAMBDA l : Len(l.toks) >= 3)

\* the memory chain of the routine called
memoryOf(field) ==
    IF metricsFn \in {"parsePodMetricsRoute", "parseNodeMetricsRoute"}
    THEN decodeMemoryBytes(field)
    ELSE decodeMemorySuffixed(field)

RECURSIVE sumCpu(_)
sumCpu(lines) ==
    IF lines = <<>> THEN Num(0)
    ELSE Plus(sumCpu(SubSeq(lines, 1, Len(lines) - 1)), decodeCpu(lines[Len(lines)].toks[2]))

RECURSIVE sumMemory(_)
sumMemory(lines) ==
    IF lines = <<>> THEN Num(0)
    ELSE Plus(sumMemory(SubSeq(lines, 1, Len(lines) - 1)), memoryOf(lines[Len(lines)].toks[3]))

\* the last line of at least three tokens that starts with `name`
lastSampleOf(name) ==
    SampleLines[CHOOSE i \in 1..Len(SampleLines) :
                    /\ SampleLines[i].toks[1] = name
                    /\ \A j \in (i + 1)..Len(SampleLines) : SampleLines[j].toks[1] # name]

(* C9: a line yields a sample if and only if it has at least 3 tokens;     *)
(* shorter lines change nothing; the sample is decoded from the first      *)
(* three tokens alone; k lines of at least 3 tokens with distinct names    *)
(* give exactly k samples, wherever the short lines are.                   *)
C9_SamplesAreLongLines ==
    Called =>
        IF metricsFn \in PodRoutines
        THEN /\ DOMAIN metricsResult = {SampleLines[i].toks[1] : i \in 1..Len(SampleLines)}
             /\ \A name \in DOMAIN metricsResult :
                    metricsResult[name] =
                        [cpu |-> decodeCpu(lastSampleOf(name).toks[2]),
                         memory |-> memoryOf(lastSampleOf(name).toks[3])]
             /\ (\A i, j \in 1..Len(SampleLines) :
                     SampleLines[i].toks[1] = SampleLines[j].toks[1] => i = j)
                    => Cardinality(DOMAIN metricsResult) = Len(SampleLines)
        ELSE /\ metricsResult.cpuUsage = sumCpu(SampleLines)
             /\ metricsResult.memoryUsage = sumMemory(SampleLines)
             /\ metricsFn \in NodeRoutines =>
                    /\ metricsResult.cpuTotal = Num(4000 * Len(SampleLines))
                    /\ metricsResult.memoryTotal = Num(16384 * Len(SampleLines))

\* three lines, the middle one short, the last with five tokens: two samples
C9_Witness ==
    /\ metricsFn = "parsePodMetricsRoute"
    /\ Len(metricsLines) = 3
    /\ Len(metricsLines[1].toks) = 3
    /\ Len(metricsLines[2].toks) < 3
    /\ Len(metricsLines[3].toks) = 5
    /\ metricsLines[1].toks[1] # metricsLines[3].toks[1]
    /\ Cardinality(DOMAIN metricsResult) = 2

----------------------------------------------------------------------------
(* What a state of the association helpers shows                            *)

\* findAssociatedResources was called and returned
ResourceCall == assocFn \in {"pvcs", "configMaps", "secrets"} /\ ~assocThrown

\* the names the list holds
Listed == {assocResult[i] : i \in 1..Len(assocResult)}

\* the volumes and the environment entries the pod declares
DeclaredVolumes ==
    IF IsPresent(pod.spec) /\ IsPresent(ValueOf(pod.spec).volumes)
    THEN {ValueOf(ValueOf(pod.spec).volumes)[i] :
             i \in 1..Len(ValueOf(ValueOf(pod.spec).volumes))}
    ELSE {}

DeclaredEnv ==
    IF IsPresent(pod.spec) /\ IsPresent(ValueOf(pod.spec).containers)
    THEN UNION {IF IsPresent(c.env)
                THEN {ValueOf(c.env)[i] : i \in 1..Len(ValueOf(c.env))}
                ELSE {} :
                c \in {ValueOf(ValueOf(pod.spec).containers)[j] :
                          j \in 1..Len(ValueOf(ValueOf(pod.spec).containers))}}
    ELSE {}

\* the names the pod references through each kind of reference
ClaimRefs == {v.claimName : v \in DeclaredVolumes} \ {""}

ConfigMapRefs ==
    ({v.configMapName : v \in DeclaredVolumes}
        \cup {e.configMapKeyRef : e \in DeclaredEnv}) \ {""}

SecretRefs ==
    ({v.secretName : v \in DeclaredVolumes}
        \cup {e.secretKeyRef : e \in DeclaredEnv}) \ {""}

CatalogNames == {resources[i].name : i \in 1..Len(resources)}

(* C2: the list computed for one kind holds only objects referenced        *)
(* through a reference of that kind: pvcs only persistentVolumeClaim       *)
(* volumes, configMaps only configMap volumes and configMapKeyRef entries, *)
(* secrets only secret volumes and secretKeyRef entries.                   *)
C2_SameKindOnly ==
    /\ assocFn = "pvcs" => Listed \subseteq ClaimRefs
    /\ assocFn = "configMaps" => Listed \subseteq ConfigMapRefs
    /\ assocFn = "secrets" => Listed \subseteq SecretRefs

LabelPairs ==
    IF IsPresent(pod.labels)
    THEN {<<k, ValueOf(pod.labels)[k]>> : k \in DOMAIN ValueOf(pod.labels)}
    ELSE {}

SelectorPairs(service) ==
    {<<k, ValueOf(service.selector)[k]>> : k \in DOMAIN ValueOf(service.selector)}

ServiceSet == {services[i] : i \in 1..Len(services)}

(* C3: a service with selector pairs is in the pod's list if and only if   *)
(* each of its selector pairs is among the pod's labels; further labels of *)
(* the pod do not matter, one pair missing or different excludes it.       *)
(* (The selector without pairs is C4's case.)                              *)
C3_SelectorSubsetOfLabels ==
    (assocFn = "services" /\ ~assocThrown) =>
        \A service \in ServiceSet :
            (IsPresent(service.selector) /\ SelectorPairs(service) # {}) =>
                (formatService(service) \in Listed
                    <=> SelectorPairs(service) \subseteq LabelPairs)

\* labels {app: web, tier: frontend}; {app: web} selects the pod,
\* {app: web, tier: backend} does not
C3_Witness ==
    /\ assocFn = "services"
    /\ LabelPairs = {<<"app", "web">>, <<"tier", "frontend">>}
    /\ Len(services) = 2
    /\ IsPresent(services[1].selector)
    /\ IsPresent(services[2].selector)
    /\ SelectorPairs(services[1]) = {<<"app", "web">>, <<"tier", "backend">>}
    /\ SelectorPairs(services[2]) = {<<"app", "web">>}
    /\ assocResult = <<formatService(services[2])>>

(* C4: a service whose selector is present but has no pairs is in no       *)
(* pod's list.                                                             *)
C4_EmptySelectorMatchesNothing ==
    assocFn = "services" =>
        \A service \in ServiceSet :
            (IsPresent(service.selector) /\ SelectorPairs(service) = {}) =>
                formatService(service) \notin Listed

\* b is the text of s before its first colon
IsBaseName(b, s) ==
    /\ \A i \in 1..Len(b) : b[i] # ":"
    /\ Len(b) <= Len(s)
    /\ SubSeq(s, 1, Len(b)) = b
    /\ (Len(s) > Len(b) => s[Len(b) + 1] = ":")

\* the hosts of the rules with a path to one of the given services
\* the rules that can be read: those with paths, of the ingresses with rules
ReadableRules ==
    {rule \in UNION {{ValueOf(ing.rules)[k] : k \in 1..Len(ValueOf(ing.rules))} :
                        ing \in {ingresses[i] : i \in {j \in 1..Len(ingresses) :
                                                          IsPresent(ingresses[j].rules)}}} :
        IsPresent(rule.paths)}

RoutedHosts ==
    {r.host : r \in {rule \in ReadableRules :
                        \E p \in 1..Len(ValueOf(rule.paths)), n \in 1..Len(serviceNames) :
                            /\ ValueOf(rule.paths)[p] # <<>>
                            /\ IsBaseName(ValueOf(rule.paths)[p], serviceNames[n])}}

(* C5: findAssociatedIngresses returns host h if and only if some ingress  *)
(* has a rule with host h and a path whose backend service name is the     *)
(* base name (the text before the colon) of one of the given services; a   *)
(* matching rule without host adds nothing, and no service gives no host.  *)
C5_HostsOfRoutedServices ==
    assocFn = "ingresses" =>
        /\ Listed = RoutedHosts \ {<<>>}
        /\ (serviceNames = <<>> => assocResult = <<>>)

\* svc1:80,443 is routed by a rule of host a.io; a rule without host also
\* routes it
C5_Witness ==
    /\ assocFn = "ingresses"
    /\ serviceNames = <<Svc1 \o <<":", "8", "0", ",", "4", "4", "3">> >>
    /\ Len(ingresses) = 2
    /\ ingresses[1].rules = Present(<<Rule(<<>>, <<Svc1>>)>>)
    /\ ingresses[2].rules = Present(<<Rule(HostA, <<<<"s", "v", "c", "9">>, Svc1>>)>>)
    /\ assocResult = <<HostA>>

----------------------------------------------------------------------------
(* C11: none of the five lists pvcs, configMaps, secrets, services,        *)
(* ingresses computed for a pod holds the same string twice, whatever the  *)
(* pod and the catalogs (repeated references, repeated catalog entries,    *)
(* several paths of one host).                                             *)
C11_NoDuplicates ==
    (assocFn # "none" /\ ~assocThrown) =>
        \A i, j \in 1..Len(assocResult) : assocResult[i] = assocResult[j] => i = j

(* C14: no call of findAssociatedResources, findAssociatedServices or      *)
(* findAssociatedIngresses throws, whatever the shape of the pod and of    *)
(* the catalog objects (metadata, spec, selector, ports, rules missing).   *)
C14_HelpersNeverThrow == ~assocThrown

----------------------------------------------------------------------------
\* the concatenation of a list of lists
RECURSIVE Flatten(_)
Flatten(lists) ==
    IF lists = <<>> THEN <<>> ELSE Head(lists) \o Flatten(Tail(lists))

\* the object a volume names, "" when it names none
NamedByVolume(v) ==
    LET named == {v.claimName, v.configMapName, v.secretName} \ {""}
    IN  IF named = {} THEN "" ELSE CHOOSE n \in named : TRUE

\* the object an environment entry names, "" when its value is literal
NamedByEnv(e) ==
    LET named == {e.configMapKeyRef, e.secretKeyRef} \ {""}
    IN  IF named = {} THEN "" ELSE CHOOSE n \in named : TRUE

\* the names the pod references, in declaration order: the volumes first,
\* then the environment entries container by container
References ==
    LET volumes ==
            IF IsPresent(pod.spec) /\ IsPresent(ValueOf(pod.spec).volumes)
            THEN ValueOf(ValueOf(pod.spec).volumes) ELSE <<>>
        containers ==
            IF IsPresent(pod.spec) /\ IsPresent(ValueOf(pod.spec).containers)
            THEN ValueOf(ValueOf(pod.spec).containers) ELSE <<>>
        envs == Flatten([c \in 1..Len(containers) |->
                           IF IsPresent(containers[c].env)
                           THEN ValueOf(containers[c].env) ELSE <<>>])
    IN  [i \in 1..Len(volumes) |-> NamedByVolume(volumes[i])]
            \o [i \in 1..Len(envs) |-> NamedByEnv(envs[i])]

\* the position of the first reference to a name
FirstReference(name) ==
    CHOOSE i \in 1..Len(References) :
        /\ References[i] = name
        /\ \A j \in 1..(i - 1) : References[j] # name

(* C12: findAssociatedResources returns the names in order of first        *)
(* discovery: each returned name is referenced by the pod, and a name      *)
(* stands before another one exactly when its first reference (volumes in  *)
(* declaration order, then environment entries in container and entry      *)
(* order) comes first. With C10 this fixes the list as a function of the   *)
(* pod and the catalog, so two calls on the same inputs return the same    *)
(* list.                                                                   *)
C12_FirstDiscoveryOrder ==
    ResourceCall =>
        /\ \A i \in 1..Len(assocResult) : includes(References, assocResult[i])
        /\ \A i, j \in 1..Len(assocResult) :
               i < j => FirstReference(assocResult[i]) < FirstReference(assocResult[j])

\* volumes data-1, app-config, data-1 and an entry that names data-1 again:
\* data-1 stays first
C12_Witness ==
    /\ ResourceCall
    /\ Len(References) > 3
    /\ SubSeq(References, 1, 3) = <<"data-1", "app-config", "data-1">>
    /\ References[Len(References)] = "data-1"
    /\ assocResult = <<"data-1", "app-config">>

----------------------------------------------------------------------------
\* the services of the catalog that select the pod, in catalog order (a
\* selector without pairs selects every labelled pod, see C4)
SelectedServices ==
    SelectSeq(services,
              LAMBDA service : /\ IsPresent(pod.labels)
                               /\ IsPresent(service.selector)
                               /\ SelectorPairs(service) \subseteq LabelPairs)

\* the port lists of the catalogs as they are to be shown
PortsText(ports) ==
    CASE ports = <<80, 443>> -> <<"8", "0", ",", "4", "4", "3">>
      [] ports = <<443, 80>> -> <<"4", "4", "3", ",", "8", "0">>

\* "<name>" without ports, "<name>:<p1>,<p2>" with ports
ServiceText(service) ==
    IF service.ports = Absent \/ service.ports = Present(<<>>)
    THEN service.name
    ELSE service.name \o <<":">> \o PortsText(ValueOf(service.ports))

(* C13: the list findAssociatedServices returns has one string for each    *)
(* selected service, in catalog order: "<name>" when the service has no    *)
(* ports (absent or empty), "<name>:<p1>,<p2>,..." with the ports in       *)
(* declared order otherwise.                                               *)
C13_ServiceTexts ==
    (assocFn = "services" /\ ~assocThrown) =>
        assocResult = [k \in 1..Len(SelectedServices) |-> ServiceText(SelectedServices[k])]

\* svc3 without ports before svc1 with ports 443, 80: "svc3", "svc1:443,80"
C13_Witness ==
    /\ assocFn = "services"
    /\ Len(services) = 2
    /\ services[1].ports = Absent
    /\ services[2].ports = Present(<<443, 80>>)
    /\ assocResult = <<Svc3, Svc1 \o <<":", "4", "4", "3", ",", "8", "0">> >>

----------------------------------------------------------------------------
(* C15: a service without spec or without selector is in no pod's list; a  *)
(* pod without metadata or without labels gets no service; a pod without   *)
(* spec gets empty pvcs, configMaps and secrets; an ingress without spec   *)
(* or rules and a rule without http or paths contribute no host.           *)
C15_MissingFieldsMatchNothing ==
    /\ (assocFn = "services" /\ ~assocThrown) =>
          /\ \A service \in ServiceSet :
                 (~service.hasSpec \/ ~IsPresent(service.selector)) =>
                     \A text \in Listed : ~IsBaseName(service.name, text)
          /\ (~pod.hasMetadata \/ ~IsPresent(pod.labels)) => assocResult = <<>>
    /\ (assocFn \in {"pvcs", "configMaps", "secrets"} /\ ~IsPresent(pod.spec)) =>
          ~assocThrown /\ assocResult = <<>>
    /\ assocFn = "ingresses" =>
          Listed \subseteq {rule.host : rule \in ReadableRules}

\* a pod without metadata and a service whose selector has no pairs: no service
C15_Witness ==
    /\ assocFn = "services"
    /\ ~pod.hasMetadata
    /\ Len(services) = 2
    /\ services[1].selector = Present(<<>>)
    /\ ~services[2].hasSpec
    /\ assocResult = <<>>

----------------------------------------------------------------------------
(* What a state of the namespace-details request shows                      *)

\* the sum of a list of numbers, taken from the right
RECURSIVE SumOf(_)
SumOf(numbers) ==
    IF numbers = <<>> THEN Num(0) ELSE Plus(Head(numbers), SumOf(Tail(numbers)))

CpuUsages(list) == [i \in 1..Len(list) |-> list[i].cpuUsage]
MemoryUsages(list) == [i \in 1..Len(list) |-> list[i].memoryUsage]

\* the sum is the same however the list is cut in two groups
SameInGroups(numbers) ==
    \A k \in 0..Len(numbers) :
        SumOf(numbers) = Plus(SumOf(SubSeq(numbers, 1, k)),
                              SumOf(SubSeq(numbers, k + 1, Len(numbers))))

(* C16: in every namespace-details result cpuUsage is the sum of the pods' *)
(* cpuUsage, memoryUsage the sum of their memoryUsage and podCount the     *)
(* number of pods, one per listed pod; an empty listing gives 0, 0, 0, and *)
(* the sums are the same however the pods are grouped.                     *)
C16_NamespaceTotalsAreSums ==
    response.status = "ok" =>
        LET ns == response.namespace
        IN  /\ ns.podCount = Len(ns.pods)
            /\ Len(ns.pods) = Len(podsData)
            /\ ns.cpuUsage = SumOf(CpuUsages(ns.pods))
            /\ ns.memoryUsage = SumOf(MemoryUsages(ns.pods))
            /\ SameInGroups(CpuUsages(ns.pods))
            /\ SameInGroups(MemoryUsages(ns.pods))
            /\ podsData = <<>> =>
                   /\ ns.podCount = 0
                   /\ ns.cpuUsage = Num(0)
                   /\ ns.memoryUsage = Num(0)

\* pod-a at 250m, 64Mi and pod-b at 1 core, 1536Ki: 2 pods, 1250, 65
C16_Witness ==
    /\ response.status = "ok"
    /\ response.namespace.podCount = 2
    /\ response.namespace.cpuUsage = Num(1250)
    /\ response.namespace.memoryUsage = Num(65)

C19_ResolutionAfterAllListings ==
    /\ (\E kind \in CatalogKinds : cli[kind] # "none") =>
           (\A kind \in CatalogKinds : cli[kind] # "none")
    /\ (Len(pods) > 0 \/ response.status = "ok") =>
           (\A kind \in CatalogKinds : cli[kind] \in {"ok", "stderr", "exit"})

\* a pod is resolved after the listings ended, some of them failed
C19_Witness ==
    /\ Len(pods) = 1
    /\ cli["pvc"] = "exit"
    /\ cli["service"] = "stderr"
    /\ cli["ingress"] = "ok"

\* the invocation exited non-zero or wrote to stderr
Failed(invocation) == cli[invocation] \in {"stderr", "exit"}

(* C20 as stated: if any kubectl invocation of the request (context        *)
(* switch, pod listing, pod metrics, one of the five catalog listings)     *)
(* exits non-zero or writes to stderr, the caller gets an error response   *)
(* and no association helper is invoked.                                   *)
C20_EveryFailureSurfaced ==
    (\E invocation \in Invocations : Failed(invocation)) =>
        /\ pods = <<>>
        /\ response.status # "ok"

(* C20 as amended: a context switch or a pod listing that exits non-zero   *)
(* or writes to stderr ends the request in an error response before any    *)
(* other command runs and any helper is invoked, and nothing else gives an *)
(* error response; a failed pod metrics command or catalog listing is not  *)
(* surfaced: after a non-zero exit the metrics map or that catalog is      *)
(* empty, the request succeeds and every listed pod is resolved.           *)
C20_OnlySwitchAndPodListingSurface ==
    /\ (Failed("use-context") \/ Failed("pods")) =>
           /\ response.status = "error"
           /\ pods = <<>>
           /\ \A invocation \in {"top"} \cup CatalogKinds : cli[invocation] = "none"
    /\ response.status = "error" => (Failed("use-context") \/ Failed("pods"))
    /\ response.status = "ok" =>
           /\ Len(pods) = Len(podsData)
           /\ cli["top"] = "exit" => podMetricsMap = <<>>
           /\ \A kind \in CatalogKinds : cli[kind] = "exit" => catalogs[kind] = <<>>

\* the metrics command and the pvc listing exited non-zero: two pods resolved,
\* success
C20_Witness ==
    /\ response.status = "ok"
    /\ cli["top"] = "exit"
    /\ cli["pvc"] = "exit"
    /\ Len(pods) = 2

----------------------------------------------------------------------------
(* C17: in every cluster snapshot cluster-info returns, cpuUsage and       *)
(* memoryUsage are the sums of the namespaces' cpuUsage and memoryUsage,   *)
(* one namespace per listed namespace, 0 when there is none; what          *)
(* parseNodeMetrics gave as usage is not in them.                          *)
C17_ClusterUsageIsSumOfNamespaces ==
    cluster.status = "ok" =>
        LET c == cluster.data
        IN  /\ Len(c.namespaces) = Len(namespaceItems)
            /\ c.cpuUsage = SumOf(CpuUsages(c.namespaces))
            /\ c.memoryUsage = SumOf(MemoryUsages(c.namespaces))
            /\ c.namespaces = <<>> => (c.cpuUsage = Num(0) /\ c.memoryUsage = Num(0))

\* the node reports 500m and 2048Mi; two namespaces at 1250, 65 and 3002, 5120
C17_Witness ==
    /\ cluster.status = "ok"
    /\ nodeMetrics.cpuUsage = Num(500)
    /\ nodeMetrics.memoryUsage = Num(2048)
    /\ Len(cluster.data.namespaces) = 2
    /\ cluster.data.cpuUsage = Num(4252)
    /\ cluster.data.memoryUsage = Num(5185)

----------------------------------------------------------------------------
\* the association list of a pod object that is computed from the catalog
ListFrom(kind, p) ==
    CASE kind = "pvc" -> p.pvcs
      [] kind = "configmap" -> p.configMaps
      [] kind = "secret" -> p.secrets
      [] kind = "service" -> p.services
      [] kind = "ingress" -> p.ingresses

\* the five listings have ended
Listed5 == \A kind \in CatalogKinds : cli[kind] \in CliOutcomes

(* C22 as stated: a catalog listing that fails or emits stderr gives an    *)
(* empty list, the request succeeds and every pod's list of that kind is   *)
(* empty; a failed metrics command gives every pod 0 and 0.                *)
C22_FailedOrStderrListingIsEmpty ==
    Listed5 =>
        /\ \A kind \in CatalogKinds :
               Failed(kind) =>
                   /\ catalogs[kind] = <<>>
                   /\ \A i \in 1..Len(pods) : ListFrom(kind, pods[i]) = <<>>
        /\ cli["top"] = "exit" =>
               \A i \in 1..Len(pods) :
                   pods[i].cpuUsage = Num(0) /\ pods[i].memoryUsage = Num(0)

(* What holds of the code for C22: a catalog listing that exits non-zero   *)
(* gives an empty list and every pod's list of that kind is empty; a      *)
(* listing that exits 0                                                    *)
(* gives its items even if kubectl wrote to stderr (the command ends in    *)
(* 2>/dev/null); a metrics command that exits non-zero gives every pod 0   *)
(* and 0; in each case the request succeeds.                               *)
C22_ExitedListingIsEmpty ==
    Listed5 =>
        /\ response.status # "error"
        /\ detailsAt = "done" => response.status = "ok"
        /\ \A kind \in CatalogKinds :
               /\ cli[kind] = "exit" =>
                      /\ catalogs[kind] = <<>>
                      /\ \A i \in 1..Len(pods) : ListFrom(kind, pods[i]) = <<>>
               /\ cli[kind] \in {"ok", "stderr"} => catalogs[kind] = NamespaceCatalog(kind)
        /\ cli["top"] = "exit" =>
               \A i \in 1..Len(pods) :
                   pods[i].cpuUsage = Num(0) /\ pods[i].memoryUsage = Num(0)

\* the pvc listing exited non-zero, kubectl warned on stderr while listing the
\* services: pod-a has no pvc and has its service
C22_Witness ==
    /\ response.status = "ok"
    /\ cli["pvc"] = "exit"
    /\ cli["service"] = "stderr"
    /\ cli["top"] = "exit"
    /\ Len(pods) = 2
    /\ pods[1].name = PodA
    /\ pods[1].pvcs = <<>>
    /\ pods[1].services # <<>>
    /\ pods[1].cpuUsage = Num(0)

----------------------------------------------------------------------------
\* the samples of the listed pods, in listing order
RECURSIVE ListedSamples(_, _)
ListedSamples(listing, map) ==
    IF listing = <<>> THEN <<>>
    ELSE LET rest == ListedSamples(Tail(listing), map)
         IN  IF Head(listing).name \in DOMAIN map
             THEN <<map[Head(listing).name]>> \o rest
             ELSE rest

SampleCpus(samples) == [i \in 1..Len(samples) |-> samples[i].cpu]
SampleMemories(samples) == [i \in 1..Len(samples) |-> samples[i].memory]

(* C28: in a namespace-details result a listed pod with no sample has      *)
(* cpuUsage 0 and memoryUsage 0, a listed pod with a sample has the values *)
(* of the map (the last line of its name), and a sample whose subject is   *)
(* not listed adds nothing: the totals are the sums of the listed pods'    *)
(* samples.                                                                *)
C28_MetricsPerListedPod ==
    response.status = "ok" =>
        LET ns == response.namespace
            samples == ListedSamples(podsData, podMetricsMap)
        IN  /\ \A i \in 1..Len(ns.pods) :
                   IF ns.pods[i].name \in DOMAIN podMetricsMap
                   THEN /\ ns.pods[i].cpuUsage = podMetricsMap[ns.pods[i].name].cpu
                        /\ ns.pods[i].memoryUsage = podMetricsMap[ns.pods[i].name].memory
                   ELSE /\ ns.pods[i].cpuUsage = Num(0)
                        /\ ns.pods[i].memoryUsage = Num(0)
            /\ ns.cpuUsage = SumOf(SampleCpus(samples))
            /\ ns.memoryUsage = SumOf(SampleMemories(samples))

\* C28 holds of the pods whose name no object inherits
C28_ExceptInheritedNames ==
    response.status = "ok" =>
        LET ns == response.namespace
            samples == ListedSamples(podsData, podMetricsMap)
        IN  /\ \A i \in 1..Len(ns.pods) :
                   IF ns.pods[i].name \in DOMAIN podMetricsMap
                   THEN /\ ns.pods[i].cpuUsage = podMetricsMap[ns.pods[i].name].cpu
                        /\ ns.pods[i].memoryUsage = podMetricsMap[ns.pods[i].name].memory
                   ELSE ns.pods[i].name \notin ObjectPrototypeKeys =>
                            /\ ns.pods[i].cpuUsage = Num(0)
                            /\ ns.pods[i].memoryUsage = Num(0)
            /\ (\A i \in 1..Len(ns.pods) : ns.pods[i].name \notin ObjectPrototypeKeys) =>
                   /\ ns.cpuUsage = SumOf(SampleCpus(samples))
                   /\ ns.memoryUsage = SumOf(SampleMemories(samples))

\* pod-b listed without a sample, pod-c sampled without being listed
C28_Witness ==
    /\ response.status = "ok"
    /\ Len(pods) = 2
    /\ pods[1].name = PodA /\ pods[2].name = PodB
    /\ PodC \in DOMAIN podMetricsMap
    /\ PodB \notin DOMAIN podMetricsMap
    /\ pods[2].cpuUsage = Num(0)
    /\ response.namespace.cpuUsage = Num(3000)

----------------------------------------------------------------------------
(* C24: in every cluster-info snapshot cpuTotal > 0 and memoryTotal > 0    *)
(* (8000 and 32000 when the node metrics command fails, 4000 and 16384 per *)
(* node line otherwise, also for a text with no line of three tokens).     *)
C24_TotalsPositive ==
    cluster.status = "ok" =>
        /\ ~cluster.data.cpuTotal.nan /\ cluster.data.cpuTotal.int > 0
        /\ ~cluster.data.memoryTotal.nan /\ cluster.data.memoryTotal.int > 0

\* what holds of the totals for C24: the defaults, or 4000 and 16384 per node
\* line, which is 0 and 0 when the text has no such line
C24_TotalsPerNodeLine ==
    cluster.status = "ok" =>
        \/ /\ cluster.data.cpuTotal = DefaultNodeMetrics.cpuTotal
           /\ cluster.data.memoryTotal = DefaultNodeMetrics.memoryTotal
        \/ \E k \in 0..MaxLines :
               /\ cluster.data.cpuTotal = Num(4000 * k)
               /\ cluster.data.memoryTotal = Num(16384 * k)

----------------------------------------------------------------------------
\* no two sample lines name the same subject
DistinctSubjects(text) ==
    LET ls == SelectSeq(lineParts(text), isSample)
    IN  \A i, j \in 1..Len(ls) : ls[i][1] = ls[j][1] => i = j

\* what namespace-details adds up when every subject is a listed pod, the
\* pods listed in the order of the lines
PodCpusOf(text) ==
    LET ls == SelectSeq(lineParts(text), isSample)
        map == parsePodMetricsRoute(text)
    IN  [i \in 1..Len(ls) |-> metricsOfPod(map, ls[i][1]).cpu]

PodMemoriesOf(text) ==
    LET ls == SelectSeq(lineParts(text), isSample)
        map == parsePodMetricsRoute(text)
    IN  [i \in 1..Len(ls) |-> metricsOfPod(map, ls[i][1]).memory]

(* C25: for one `kubectl top pods` text with distinct subjects, each a     *)
(* listed pod, the cpuUsage and memoryUsage of parseNamespaceMetrics       *)
(* (cluster-info) equal the sums over the pods of parsePodMetrics          *)
(* (namespace-details).                                                    *)
C25_NamespaceMetricsAgree ==
    (metricsFn = "parseNamespaceMetricsRoute" /\ DistinctSubjects(metricsOutput)) =>
        /\ metricsResult.cpuUsage = SumOf(PodCpusOf(metricsOutput))
        /\ metricsResult.memoryUsage = SumOf(PodMemoriesOf(metricsOutput))

\* what holds for C25: the CPU figures agree
C25_CpuAgrees ==
    (metricsFn = "parseNamespaceMetricsRoute" /\ DistinctSubjects(metricsOutput)) =>
        metricsResult.cpuUsage = SumOf(PodCpusOf(metricsOutput))

----------------------------------------------------------------------------
(* C21: a namespace-details request for context C reads the pod listing,   *)
(* the pod metrics and the five catalogs while the file's current context  *)
(* is C, also when the switch of another request on the same file falls    *)
(* between its own switch and its listings.                                *)
C21_ListingsUnderOwnContext ==
    \A invocation \in DOMAIN reader.seen :
        reader.seen[invocation] = reader.contextName

----------------------------------------------------------------------------
\* the routes with the path check
CheckedRoutes == KubectlRoutes \cup {"delete"}

(* C23: the delete route and the kubectl routes act on filePath only if it *)
(* lies inside the temp directory <cwd>/tmp: a filePath outside it is      *)
(* answered 400, no file is unlinked and no command is run.                *)
C23_OutsideTempDirRejected ==
    (routeCall.route \in CheckedRoutes /\ ~InsideTempDir(routeCall.filePath)) =>
        /\ routeCall.status = 400
        /\ disk = routeCall.before
        /\ ~routeCall.ran

\* what holds for C23: a filePath without the text "tmp/kubeconfig-" is
\* answered 400, nothing is unlinked and no command is run
C23_WithoutMarkerRejected ==
    (routeCall.route \in CheckedRoutes
        /\ ~includesText(routeCall.filePath, <<"t", "m", "p", "/", "k", "u", "b", "e", "c", "o", "n", "f", "i", "g", "-">>)) =>
        /\ routeCall.status = 400
        /\ disk = routeCall.before
        /\ ~routeCall.ran

----------------------------------------------------------------------------
\* the upload requests the route answers with an error status: another
\* content type, no file or no content, a file over 1 MB, a file name that is
\* none of k.yaml, k.yml, k.json, a content that is no object
UploadErrorCase(r) ==
    \/ r.contentType = "other"
    \/ r.contentType = "form" /\ ~r.hasFile
    \/ r.contentType = "json" /\ (~r.content.isString \/ r.content.text = "")
    \/ r.contentType = "form" /\ r.hasFile /\ r.content.size > 1048576
    \/ r.contentType = "form" /\ r.hasFile
           /\ r.fileName \notin {<<"k", ".", "y", "a", "m", "l">>, <<"k", ".", "y", "m", "l">>, <<"k", ".", "j", "s", "o", "n">>}
    \/ r.content.text \in {"hello", "null", "", "a: b: c"}

(* C30: the upload route writes no file when it answers an error status    *)
(* (other content type, missing file or content, file over 1 MB, extension *)
(* other than .yaml, .yml, .json, content that does not parse to an        *)
(* object); on success it writes exactly one new file kubeconfig-<uuid> in *)
(* the temp directory, holding the uploaded content.                       *)
C30_UploadWritesOnlyOnSuccess ==
    routeCall.route = "upload" =>
        LET r == routeCall.upload[1]
            before == routeCall.before
        IN  /\ routeCall.status \in {200, 400, 500}
            /\ UploadErrorCase(r) <=> routeCall.status # 200
            /\ routeCall.status # 200 => disk = before
            /\ routeCall.status = 200 =>
                   \E uniqueId \in Uuids :
                      LET written == resolve(kubeconfigPath(uniqueId))
                      IN  /\ routeCall.filePath = kubeconfigPath(uniqueId)
                          /\ InsideTempDir(routeCall.filePath)
                          /\ written \notin DOMAIN before
                          /\ DOMAIN disk = DOMAIN before \cup {written}
                          /\ disk[written] = r.content.text
                          /\ \A q \in DOMAIN before : disk[q] = before[q]

\* a second file uploaded: the first is kept, one is added
C30_Witness ==
    /\ routeCall.route = "upload"
    /\ routeCall.status = 200
    /\ routeCall.upload[1].contentType = "form"
    /\ routeCall.upload[1].content.size = MAX_FILE_SIZE
    /\ Cardinality(DOMAIN disk) = Cardinality(DOMAIN HostFiles) + 2
    /\ Cardinality(DOMAIN routeCall.before) = Cardinality(DOMAIN HostFiles) + 1

\* an upload answered 400 after an upload that was written: the disk is as
\* it was
C30_WitnessRejected ==
    /\ routeCall.route = "upload"
    /\ routeCall.status = 400
    /\ routeCall.upload[1].content.text = "a: b: c"
    /\ disk = routeCall.before
    /\ Cardinality(DOMAIN disk) = Cardinality(DOMAIN HostFiles) + 1

----------------------------------------------------------------------------
\* the value of the slice "Others", 0 when there is none
OthersValue(list) ==
    reduceValue(SelectSeq(list, LAMBDA item : item.name = "Others"))

\* the positive values of a list of entries
PositiveTotal(list) == reduceValue(SelectSeq(list, LAMBDA item : item.value > 0))

(* C29: for a data list in any order, the slice "Others" is the total of   *)
(* exactly the entries that are not among the five largest, so the slices  *)
(* add up to the sum of the positive values of the data.                   *)
C29_OthersIsTheRest ==
    chartAt = "rendered" =>
        /\ OthersValue(slices) = reduceValue(sliceFrom(sortDescending(chartData), 5))
        /\ reduceValue(slices) = PositiveTotal(chartData)

\* what holds for C29: the claim, for data that come in descending order
C29_OthersIsTheRestOfSorted ==
    (chartAt = "rendered" /\ sortDescending(chartData) = chartData) =>
        /\ OthersValue(slices) = reduceValue(sliceFrom(sortDescending(chartData), 5))
        /\ reduceValue(slices) = PositiveTotal(chartData)

----------------------------------------------------------------------------
(* C26: whenever selectedNamespace is non-null, selectedCluster is         *)
(* non-null and selectedNamespace was loaded for selectedCluster's         *)
(* context, under every interleaving of handleClusterSelect,               *)
(* handleNamespaceSelect and handleRefreshData with the responses.         *)
C26_NamespaceOfSelectedCluster ==
    IsPresent(selectedNamespace) =>
        /\ IsPresent(selectedCluster)
        /\ ValueOf(selectedNamespace).context = ValueOf(selectedCluster)

(* C27: when context A and then context B are selected before A's response *)
(* arrives, selectedCluster is B's snapshot once both have settled         *)
(* successfully: an earlier selection's response never overwrites a later  *)
(* one.                                                                    *)
C27_LatestSelectionWins ==
    (/\ Len(selects) >= 2
     /\ \A i \in 1..Len(selects) : selects[i].status = "ok"
     /\ inFlight = {}) =>
        selectedCluster = Present(selects[Len(selects)].context)

====
